---- MODULE Spec2Model ----
(***************************************************************************)
(* A model of the SIO library (LowLevelIO/SIO): the growable buffer        *)
(* engine and its pool (src/src/buf.c), the buffer stream on top of it     *)
(* (src/src/stream/memory.c), the stream core (src/src/stream.c) with the  *)
(* POSIX file, socket, timer and signal backends, and the standard-stream  *)
(* singletons.  Each subsystem has its own specification over the shared   *)
(* variables: SpecBuf and SpecMem (buffers, without and with their bytes), *)
(* SpecPool, SpecClose, SpecIO, SpecAny and SpecOps (streams), SpecSock    *)
(* (the storage of a socket stream), SpecTrunc and SpecRaw (truncation of  *)
(* a buffer stream, raw memory streams), SpecSig (the Windows signal       *)
(* registry under two threads), SpecMap and SpecEof (a file stream with a  *)
(* mapping, and its end-of-file query), SpecTimer, SpecMask (signal        *)
(* streams and the signal mask), SpecAfter (calls on a closed stream),     *)
(* SpecRo (a buffer stream through the stream calls only), SpecFail (the   *)
(* close after a failed socket open) and SpecStd.                          *)
(***************************************************************************)
EXTENDS Integers, Sequences, FiniteSets, TLC

VARIABLES
  buf,      \* the sio_buffer_t under test
  bflags,   \* flags of the buffer stream that wraps buf
  res,      \* the last buffer call and what it returned
  hung,     \* TRUE once a call has entered a loop it never leaves
  pool,     \* the sio_buffer_pool_t under test
  held,     \* the buffers the caller acquired and has not released yet
  released, \* the buffer pointer the caller gave back last
  pres,     \* the last pool call and what it returned
  stream,   \* the sio_stream_t under test
  sres,     \* the last stream call and what it returned
  io,       \* what the operating system has seen of the stream's handle
  g_std,    \* g_stdin, g_stdout and g_stderr
  g_std_streams_initialized,
  thread,   \* where each thread is in a standard-stream accessor
  mem,      \* the bytes behind buf.data and the protection of the mapping
  rt,       \* the write, seek and read of a round trip through the buffer
  win       \* the process-global state of the Windows signal streams

bufVars == <<buf, bflags, res, hung>>
poolVars == <<pool, held, released, pres>>
streamVars == <<stream, sres, io>>
stdVars == <<g_std, g_std_streams_initialized, thread>>
memVars == <<mem, rt>>
sigVars == <<win>>
vars ==
  <<buf, bflags, res, hung, pool, held, released, pres, stream, sres, io,
    g_std, g_std_streams_initialized, thread, mem, rt, win>>

\* what a call on one subsystem leaves alone
OnlyBuf == UNCHANGED <<poolVars, streamVars, stdVars, memVars, sigVars>>
OnlyPool == UNCHANGED <<bufVars, streamVars, stdVars, memVars, sigVars>>
OnlyStream ==
  UNCHANGED <<bflags, res, hung, poolVars, stdVars, memVars, sigVars>>
OnlyStd == UNCHANGED <<bufVars, poolVars, streamVars, memVars, sigVars>>
OnlyMem == UNCHANGED <<bflags, poolVars, streamVars, stdVars, sigVars>>

----------------------------------------------------------------------------
(* Bounds of the model *)

\* width of size_t in bits (the model's word is narrower than the machine's)
SizeBits == 13
\* the largest block the allocator hands out; larger requests fail with ENOMEM
MaxAlloc == 16
\* the largest source or destination block a caller passes to read or write
MaxXfer == 3

----------------------------------------------------------------------------
(* Program constants *)

SIO_BUFFER_ALIGNMENT == 8
SIO_BUFFER_DEFAULT_SIZE == 4096
OPTIMAL_THRESHOLD == 65536

SizeMod == 2^SizeBits
SIZE_MAX == SizeMod - 1
SIO_BUFFER_MAX_SIZE == SIZE_MAX

SIO_STREAM_READ == 2^0
SIO_STREAM_WRITE == 2^1
SIO_STREAM_RDWR == SIO_STREAM_READ + SIO_STREAM_WRITE

GrowthStrategies ==
  {"SIO_BUFFER_GROWTH_FIXED", "SIO_BUFFER_GROWTH_DOUBLE",
   "SIO_BUFFER_GROWTH_LINEAR", "SIO_BUFFER_GROWTH_OPTIMAL"}

Min(a, b) == IF a < b THEN a ELSE b

\* bitwise and of two naturals
RECURSIVE BitAnd(_, _)
BitAnd(a, b) ==
  IF a = 0 \/ b = 0 THEN 0
  ELSE (IF a % 2 = 1 /\ b % 2 = 1 THEN 1 ELSE 0) + 2 * BitAnd(a \div 2, b \div 2)

----------------------------------------------------------------------------
(* The buffer engine, src/src/buf.c *)

\* a size passed on as it is, not rounded up
align_size_unrounded(size) == size % SizeMod

\* (size + ALIGN - 1) & ~(ALIGN - 1), in size_t arithmetic
sio_align_size(size) ==
  LET x == (size + SIO_BUFFER_ALIGNMENT - 1) % SizeMod
  IN  x - (x % SIO_BUFFER_ALIGNMENT)

\* posix_memalign: succeeds when memory is left (mem_ok) and the block fits
AllocOk(size, mem_ok) == mem_ok /\ size <= MaxAlloc

\* memset(buffer, 0, sizeof(sio_buffer_t))
ZeroBuffer ==
  [data |-> FALSE, size |-> 0, capacity |-> 0, position |-> 0,
   owns_memory |-> FALSE, is_mmap |-> FALSE,
   growth_strategy |-> "SIO_BUFFER_GROWTH_FIXED", growth_factor |-> 0]

Ret(b, err) == [b |-> b, err |-> err]

\* the while loops of sio_calculate_new_capacity; -1 stands for a loop that
\* never ends (the capacity does not move and stays below min_capacity)
RECURSIVE GrowDouble(_, _)
GrowDouble(cap, min_capacity) ==
  IF cap >= min_capacity THEN cap
  ELSE IF cap > SIO_BUFFER_MAX_SIZE \div 2 THEN min_capacity
  ELSE IF cap = 0 THEN -1
  ELSE GrowDouble((cap * 2) % SizeMod, min_capacity)

RECURSIVE GrowLinear(_, _, _)
GrowLinear(cap, factor, min_capacity) ==
  IF cap >= min_capacity THEN cap
  ELSE IF cap > SIO_BUFFER_MAX_SIZE - factor THEN min_capacity
  ELSE IF factor = 0 THEN -1
  ELSE GrowLinear((cap + factor) % SizeMod, factor, min_capacity)

RECURSIVE GrowOptimal(_, _)
GrowOptimal(cap, min_capacity) ==
  IF cap >= min_capacity THEN cap
  ELSE IF cap < OPTIMAL_THRESHOLD
       THEN IF cap > SIO_BUFFER_MAX_SIZE \div 2 THEN min_capacity
            ELSE IF cap = 0 THEN -1
            ELSE GrowOptimal((cap * 2) % SizeMod, min_capacity)
       ELSE IF cap > SIO_BUFFER_MAX_SIZE - (cap \div 2) THEN min_capacity
            ELSE GrowOptimal((cap + cap \div 2) % SizeMod, min_capacity)

sio_calculate_new_capacity(b, min_capacity) ==
  LET grown ==
        CASE b.growth_strategy = "SIO_BUFFER_GROWTH_FIXED" -> min_capacity
          [] b.growth_strategy = "SIO_BUFFER_GROWTH_DOUBLE" ->
               GrowDouble(b.capacity, min_capacity)
          [] b.growth_strategy = "SIO_BUFFER_GROWTH_LINEAR" ->
               GrowLinear(b.capacity, b.growth_factor, min_capacity)
          [] OTHER -> GrowOptimal(b.capacity, min_capacity)
  IN  IF grown = -1 THEN -1
      ELSE IF grown < min_capacity THEN min_capacity ELSE grown

sio_buffer_create_ex(initial_capacity, growth_strategy, growth_factor, mem_ok) ==
  LET b0  == [ZeroBuffer EXCEPT !.growth_strategy = growth_strategy,
                                !.growth_factor = growth_factor,
                                !.owns_memory = TRUE]
      cap == sio_align_size(IF initial_capacity = 0
                            THEN SIO_BUFFER_DEFAULT_SIZE ELSE initial_capacity)
  IN  IF ~AllocOk(sio_align_size(cap), mem_ok) THEN Ret(b0, "SIO_ERROR_MEM")
      ELSE Ret([b0 EXCEPT !.data = TRUE, !.capacity = cap], "SIO_SUCCESS")

sio_buffer_create(initial_capacity, mem_ok) ==
  sio_buffer_create_ex(initial_capacity, "SIO_BUFFER_GROWTH_OPTIMAL", 0, mem_ok)

sio_buffer_from_memory(size) ==
  Ret([ZeroBuffer EXCEPT !.data = TRUE, !.size = size, !.capacity = size],
      "SIO_SUCCESS")

\* map_ok: open, lseek and mmap all succeed; file_size is the file's length
sio_buffer_mmap_file(file_size, map_ok) ==
  LET b0 == [ZeroBuffer EXCEPT !.is_mmap = TRUE, !.owns_memory = TRUE]
  IN  IF ~map_ok THEN Ret(b0, "SIO_ERROR_IO")
      ELSE Ret([b0 EXCEPT !.data = TRUE, !.size = file_size,
                          !.capacity = file_size], "SIO_SUCCESS")

sio_buffer_destroy(b) == Ret(ZeroBuffer, "SIO_SUCCESS")

\* a resize that moves the buffer to the new block and leaves size and
\* position as they were
resize_without_clamp(b, new_capacity, mem_ok) ==
  IF ~b.owns_memory \/ b.is_mmap THEN Ret(b, "SIO_ERROR_FILE_READONLY")
  ELSE
    LET cap == sio_align_size(new_capacity)
    IN  IF ~AllocOk(cap, mem_ok) THEN Ret(b, "SIO_ERROR_MEM")
        ELSE Ret([b EXCEPT !.data = TRUE, !.capacity = cap], "SIO_SUCCESS")

sio_buffer_resize(b, new_capacity, mem_ok) ==
  IF ~b.owns_memory \/ b.is_mmap THEN Ret(b, "SIO_ERROR_FILE_READONLY")
  ELSE
    LET cap == sio_align_size(new_capacity)
    IN  IF ~AllocOk(cap, mem_ok) THEN Ret(b, "SIO_ERROR_MEM")
        ELSE
          LET b1 == [b EXCEPT !.data = TRUE, !.capacity = cap]
              b2 == IF cap < b1.size
                    THEN [b1 EXCEPT !.size = cap,
                                    !.position = IF b1.position > cap
                                                 THEN cap ELSE b1.position]
                    ELSE b1
          IN  Ret(b2, "SIO_SUCCESS")

sio_buffer_reserve(b, additional_capacity, mem_ok) ==
  IF (b.capacity - b.size) % SizeMod >= additional_capacity
  THEN Ret(b, "SIO_SUCCESS")
  ELSE
    LET required_capacity == (b.size + additional_capacity) % SizeMod
    IN  IF required_capacity < b.size THEN Ret(b, "SIO_ERROR_BUFFER_TOO_SMALL")
        ELSE sio_buffer_resize(b, required_capacity, mem_ok)

sio_buffer_ensure_capacity(b, min_capacity, mem_ok) ==
  IF b.capacity >= min_capacity THEN Ret(b, "SIO_SUCCESS")
  ELSE sio_buffer_resize(b, min_capacity, mem_ok)

sio_buffer_shrink_to_fit(b, mem_ok) ==
  IF ~b.owns_memory \/ b.is_mmap THEN Ret(b, "SIO_ERROR_FILE_READONLY")
  ELSE IF b.size = b.capacity THEN Ret(b, "SIO_SUCCESS")
  ELSE sio_buffer_resize(b, b.size, mem_ok)

\* err "HANG": sio_calculate_new_capacity never returns
sio_buffer_write(b, size, mem_ok) ==
  IF b.is_mmap /\ ~b.owns_memory THEN Ret(b, "SIO_ERROR_FILE_READONLY")
  ELSE
    LET new_size == (b.position + size) % SizeMod
    IN  IF new_size < b.position THEN Ret(b, "SIO_ERROR_BUFFER_TOO_SMALL")
        ELSE
          LET grow == new_size > b.capacity
              ncap == IF grow THEN sio_calculate_new_capacity(b, new_size) ELSE 0
              r    == IF grow /\ ncap # -1
                      THEN sio_buffer_resize(b, ncap, mem_ok)
                      ELSE Ret(b, "SIO_SUCCESS")
          IN  IF grow /\ ncap = -1 THEN Ret(b, "HANG")
              ELSE IF r.err # "SIO_SUCCESS" THEN r
              ELSE
                LET pos == IF size > 0 THEN (r.b.position + size) % SizeMod
                           ELSE r.b.position
                IN  Ret([r.b EXCEPT !.position = pos,
                                    !.size = IF pos > r.b.size THEN pos ELSE r.b.size],
                        "SIO_SUCCESS")

\* returns the buffer, the error and the count stored in *bytes_read
sio_buffer_read(b, size) ==
  LET available == (b.size - b.position) % SizeMod
      to_read   == IF size < available THEN size ELSE available
  IN  [b   |-> [b EXCEPT !.position = (b.position + to_read) % SizeMod],
       err |-> IF to_read < size THEN "SIO_ERROR_EOF" ELSE "SIO_SUCCESS",
       n   |-> to_read]

sio_buffer_seek(b, position) ==
  IF position > b.size THEN Ret(b, "SIO_ERROR_PARAM")
  ELSE Ret([b EXCEPT !.position = position], "SIO_SUCCESS")

sio_buffer_seek_relative(b, offset) ==
  IF offset < 0
  THEN IF -offset > b.position THEN Ret(b, "SIO_ERROR_PARAM")
       ELSE Ret([b EXCEPT !.position = b.position + offset], "SIO_SUCCESS")
  ELSE IF b.position + offset > b.size THEN Ret(b, "SIO_ERROR_PARAM")
       ELSE Ret([b EXCEPT !.position = b.position + offset], "SIO_SUCCESS")

sio_buffer_clear(b) == Ret([b EXCEPT !.size = 0, !.position = 0], "SIO_SUCCESS")

----------------------------------------------------------------------------
(* The buffer stream over the buffer, src/src/stream/memory.c *)

\* a truncate that leaves the cursor where it was
truncate_keeps_position(flags, b, size, mem_ok) ==
  IF BitAnd(flags, SIO_STREAM_WRITE) = 0 THEN Ret(b, "SIO_ERROR_PERM")
  ELSE IF size > SIZE_MAX THEN Ret(b, "SIO_ERROR_PARAM")
  ELSE IF size > b.size
  THEN LET r == sio_buffer_ensure_capacity(b, size, mem_ok)
       IN  IF r.err # "SIO_SUCCESS" THEN r
           ELSE Ret([r.b EXCEPT !.size = size], r.err)
  ELSE Ret([b EXCEPT !.size = size], "SIO_SUCCESS")

buffer_truncate(flags, b, size, mem_ok) ==
  IF BitAnd(flags, SIO_STREAM_WRITE) = 0 THEN Ret(b, "SIO_ERROR_PERM")
  ELSE IF size > SIZE_MAX THEN Ret(b, "SIO_ERROR_PARAM")
  ELSE IF size < b.size
  THEN LET b1 == [b EXCEPT !.size = size,
                           !.position = IF b.position > size THEN size
                                        ELSE b.position]
       IN  IF b1.size < b1.capacity \div 2
           THEN sio_buffer_shrink_to_fit(b1, mem_ok)
           ELSE Ret(b1, "SIO_SUCCESS")
  ELSE IF size > b.size
  THEN LET r == sio_buffer_ensure_capacity(b, size, mem_ok)
       IN  IF r.err # "SIO_SUCCESS" THEN r
           ELSE IF r.b.size < size THEN Ret([r.b EXCEPT !.size = size], r.err)
           ELSE r
  ELSE Ret(b, "SIO_SUCCESS")

\* set_option(SIO_OPT_BUFFER_SIZE, value)
buffer_set_option(b, value, mem_ok) == sio_buffer_resize(b, value, mem_ok)

----------------------------------------------------------------------------
(* SpecBuf: one buffer, one buffer stream over it, any sequence of calls *)

CapArgs == {0, 1, SIO_BUFFER_ALIGNMENT, SIO_BUFFER_ALIGNMENT + 1,
            MaxAlloc, MaxAlloc + 1, SIZE_MAX - 1, SIZE_MAX}
XferArgs == 0..MaxXfer \cup {SIO_BUFFER_ALIGNMENT + 1}
PosArgs == {0, 1, 2, SIO_BUFFER_ALIGNMENT, SIO_BUFFER_ALIGNMENT + 1, MaxAlloc}
OffArgs == {-SizeMod, -2, -1, 0, 1, 2, SIO_BUFFER_ALIGNMENT + 1}
FactorArgs == {0, SIO_BUFFER_ALIGNMENT}
MemLens == {0, 3, SIO_BUFFER_ALIGNMENT, SIO_BUFFER_ALIGNMENT + 2}

\* cut: the call left fewer bytes in the buffer than it found;
\* past: the call was a write that ends beyond the capacity it found
NoRes ==
  [op |-> "none", err |-> "SIO_SUCCESS", n |-> 0, cut |-> FALSE,
   past |-> FALSE]
Result(op, err, n) ==
  [op |-> op, err |-> err, n |-> n, cut |-> FALSE, past |-> FALSE]

\* a call that changes the buffer through r and leaves its mark in res
Apply(op, r) ==
  /\ buf' = r.b
  /\ res' = [Result(op, r.err, 0) EXCEPT !.cut = r.b.size < buf.size]
  /\ hung' = (r.err = "HANG")
  /\ UNCHANGED bflags
  /\ OnlyBuf

Alive == buf.data /\ ~hung

BufCreate ==
  /\ ~buf.data /\ ~hung
  /\ \E cap \in CapArgs, mem_ok \in BOOLEAN :
       Apply("create", sio_buffer_create(cap, mem_ok))

BufCreateEx ==
  /\ ~buf.data /\ ~hung
  /\ \E cap \in CapArgs, gs \in GrowthStrategies, gf \in FactorArgs,
        mem_ok \in BOOLEAN :
       Apply("create_ex", sio_buffer_create_ex(cap, gs, gf, mem_ok))

BufFromMemory ==
  /\ ~buf.data /\ ~hung
  /\ \E len \in MemLens : Apply("from_memory", sio_buffer_from_memory(len))

BufMmapFile ==
  /\ ~buf.data /\ ~hung
  /\ \E len \in MemLens \ {0}, map_ok \in BOOLEAN :
       Apply("mmap_file", sio_buffer_mmap_file(len, map_ok))

BufDestroy == Alive /\ Apply("destroy", sio_buffer_destroy(buf))

BufReserve ==
  /\ Alive
  /\ \E n \in CapArgs, mem_ok \in BOOLEAN :
       Apply("reserve", sio_buffer_reserve(buf, n, mem_ok))

BufEnsureCapacity ==
  /\ Alive
  /\ \E n \in CapArgs, mem_ok \in BOOLEAN :
       Apply("ensure_capacity", sio_buffer_ensure_capacity(buf, n, mem_ok))

BufResize ==
  /\ Alive
  /\ \E n \in CapArgs, mem_ok \in BOOLEAN :
       Apply("resize", sio_buffer_resize(buf, n, mem_ok))

BufShrinkToFit ==
  /\ Alive
  /\ \E mem_ok \in BOOLEAN :
       Apply("shrink_to_fit", sio_buffer_shrink_to_fit(buf, mem_ok))

BufWrite ==
  /\ Alive
  /\ \E n \in XferArgs, mem_ok \in BOOLEAN :
       LET r == sio_buffer_write(buf, n, mem_ok)
       IN  /\ buf' = r.b
           /\ res' = [Result("write", r.err, 0) EXCEPT
                        !.past = buf.position + n > buf.capacity]
           /\ hung' = (r.err = "HANG")
           /\ UNCHANGED bflags
           /\ OnlyBuf

BufRead ==
  /\ Alive
  /\ \E n \in XferArgs :
       LET r == sio_buffer_read(buf, n)
       IN  /\ buf' = r.b
           /\ res' = Result("read", r.err, r.n)
           /\ UNCHANGED <<bflags, hung>>
           /\ OnlyBuf

BufSeek ==
  /\ Alive
  /\ \E p \in PosArgs : Apply("seek", sio_buffer_seek(buf, p))

BufSeekRelative ==
  /\ Alive
  /\ \E off \in OffArgs : Apply("seek_relative", sio_buffer_seek_relative(buf, off))

BufClear == Alive /\ Apply("clear", sio_buffer_clear(buf))

StreamTruncate ==
  /\ Alive
  /\ \E n \in PosArgs, mem_ok \in BOOLEAN :
       Apply("truncate", buffer_truncate(bflags, buf, n, mem_ok))

StreamSetBufferSize ==
  /\ Alive
  /\ \E n \in CapArgs, mem_ok \in BOOLEAN :
       Apply("set_buffer_size", buffer_set_option(buf, n, mem_ok))

NextBuf ==
  \/ BufCreate
  \/ BufCreateEx
  \/ BufFromMemory
  \/ BufMmapFile
  \/ BufDestroy
  \/ BufReserve
  \/ BufEnsureCapacity
  \/ BufResize
  \/ BufShrinkToFit
  \/ BufWrite
  \/ BufRead
  \/ BufSeek
  \/ BufSeekRelative
  \/ BufClear
  \/ StreamTruncate
  \/ StreamSetBufferSize

----------------------------------------------------------------------------
(* C34: every buffer write, reserve and ensure_capacity call terminates:   *)
(* the capacity-growth computation leaves its loop for every growth        *)
(* strategy and every reachable buffer, so no such call ends in a loop it  *)
(* never leaves.                                                            *)
C34_GrowthTerminates ==
  res.op \in {"write", "reserve", "ensure_capacity"} => ~hung

----------------------------------------------------------------------------
(* C1: for every buffer, after any sequence of buffer operations, whether *)
(* each call succeeded or failed, 0 <= position <= size <= capacity.      *)
C1_PositionSizeCapacity ==
  /\ 0 <= buf.position
  /\ buf.position <= buf.size
  /\ buf.size <= buf.capacity

\* a resize has shrunk a buffer below the bytes it held and below its cursor
C1_Witness ==
  /\ res.op \in {"resize", "set_buffer_size"}
  /\ res.err = "SIO_SUCCESS"
  /\ res.cut
  /\ buf.capacity = SIO_BUFFER_ALIGNMENT
  /\ buf.size = SIO_BUFFER_ALIGNMENT
  /\ buf.position = SIO_BUFFER_ALIGNMENT

----------------------------------------------------------------------------
(* C12, as stated: the capacity of every buffer is a multiple of the        *)
(* platform alignment at all times, for buffers made by create, create_ex, *)
(* from_memory and mmap_file and after every resize, shrink_to_fit or      *)
(* growth.                                                                 *)
C12_CapacityAligned ==
  buf.data => buf.capacity % SIO_BUFFER_ALIGNMENT = 0

(* C12, amended: the capacity of every buffer that owns allocated memory   *)
(* (made by create or create_ex, and after every resize, shrink_to_fit or  *)
(* growth) is a multiple of the platform alignment; a buffer made by       *)
(* from_memory or mmap_file has the length of the wrapped region or file   *)
(* as its capacity.                                                        *)
C12_OwnedCapacityAligned ==
  /\ (buf.data /\ buf.owns_memory /\ ~buf.is_mmap)
       => buf.capacity % SIO_BUFFER_ALIGNMENT = 0
  /\ (res.op \in {"from_memory", "mmap_file"} /\ res.err = "SIO_SUCCESS")
       => buf.capacity = buf.size

\* a write at the end of a full buffer has grown it to the next multiple
C12_Witness ==
  /\ res.op = "write" /\ res.err = "SIO_SUCCESS"
  /\ buf.owns_memory /\ ~buf.is_mmap
  /\ buf.size = SIO_BUFFER_ALIGNMENT + 1
  /\ buf.capacity = 2 * SIO_BUFFER_ALIGNMENT

----------------------------------------------------------------------------
(* C13: a buffer whose growth strategy is fixed never grows: a write that  *)
(* would exceed its capacity fails with buffer-too-small and leaves        *)
(* capacity, size and position unchanged.                                  *)
C13_FixedNeverGrows ==
  [][(/\ buf.data
      /\ buf.growth_strategy = "SIO_BUFFER_GROWTH_FIXED"
      /\ res'.op = "write" /\ res'.past)
       => (res'.err = "SIO_ERROR_BUFFER_TOO_SMALL" /\ buf' = buf)]_vars

----------------------------------------------------------------------------
(* C14: a memory-mapped buffer has the fixed strategy and a capacity equal *)
(* to the file size for its whole life, and a write that would extend past *)
(* the end of the mapping returns buffer-too-small.                        *)
C14_MmapFixed ==
  [][/\ (res'.op = "mmap_file" /\ res'.err = "SIO_SUCCESS")
          => (/\ buf'.capacity = buf'.size
              /\ buf'.growth_strategy = "SIO_BUFFER_GROWTH_FIXED")
     /\ (buf.data /\ buf.is_mmap /\ buf'.data)
          => (/\ buf'.growth_strategy = "SIO_BUFFER_GROWTH_FIXED"
              /\ buf'.capacity = buf.capacity
              /\ (res'.op = "write" /\ res'.past)
                   => res'.err = "SIO_ERROR_BUFFER_TOO_SMALL")]_vars

----------------------------------------------------------------------------
(* SpecMem: one buffer together with the bytes it holds *)

\* the longest byte sequence a caller passes, besides the one that overflows
\* the smallest buffer
MaxData == 2
\* the writes that succeed in the life of one buffer
MaxWrites == 2

\* the byte sequences a caller passes: one of every length up to MaxData and
\* one that overflows the smallest buffer; 0 stands for a byte nobody has
\* written
Long == [i \in 1..(SIO_BUFFER_ALIGNMENT + 1) |-> 1 + (i % 2)]
Datas == {[i \in 1..n |-> i] : n \in 0..MaxData} \cup {Long}

\* bytes: the block behind buffer->data, as long as the capacity;
\* read_only: the block is a mapping made with PROT_READ;
\* writes: the writes to the buffer that have succeeded
NoMem == [bytes |-> <<>>, read_only |-> FALSE, writes |-> 0]
\* phase: "written" after a write that succeeded, "rewound" after the seek
\* back to the position the write started at, "read" after a read of as many
\* bytes as were written; grew: the write reallocated the block
NoRt ==
  [phase |-> "none", start |-> 0, data |-> <<>>, got |-> <<>>, grew |-> FALSE]

\* a block from the allocator
Fresh(capacity) == [i \in 1..capacity |-> 0]

\* the block after the reallocation of sio_buffer_resize: the first
\* min(size, new_capacity) bytes are copied into a new block
resize_bytes(bytes, size, new_capacity) ==
  [i \in 1..new_capacity |-> IF i <= Min(size, new_capacity) THEN bytes[i] ELSE 0]

\* a copy that lands at the start of the block
write_bytes_at_start(bytes, position, data) ==
  [i \in 1..Len(bytes) |-> IF i <= Len(data) THEN data[i] ELSE bytes[i]]

\* memcpy(buffer->data + buffer->position, data, size)
write_bytes(bytes, position, data) ==
  [i \in 1..Len(bytes) |->
     IF i > position /\ i <= position + Len(data)
     THEN data[i - position] ELSE bytes[i]]

\* memcpy(data, buffer->data + buffer->position, to_read)
read_bytes(bytes, position, to_read) ==
  [i \in 1..to_read |-> bytes[position + i]]

\* a call that is no part of a round trip
MemApply(op, r, bytes, read_only) ==
  /\ buf' = r.b
  /\ res' = [Result(op, r.err, 0) EXCEPT !.cut = r.b.size < buf.size]
  /\ mem' = [bytes |-> bytes, read_only |-> read_only,
             writes |-> IF buf.data THEN mem.writes ELSE 0]
  /\ rt' = NoRt
  /\ UNCHANGED hung
  /\ OnlyMem

MemCreateEx ==
  /\ ~buf.data /\ ~hung
  /\ \E cap \in {1, SIO_BUFFER_ALIGNMENT + 1},
        gs \in {"SIO_BUFFER_GROWTH_FIXED", "SIO_BUFFER_GROWTH_OPTIMAL"},
        mem_ok \in BOOLEAN :
       LET r == sio_buffer_create_ex(cap, gs, SIO_BUFFER_ALIGNMENT, mem_ok)
       IN  MemApply("create_ex", r,
                    IF r.err = "SIO_SUCCESS" THEN Fresh(r.b.capacity) ELSE <<>>,
                    FALSE)

MemFromMemory ==
  /\ ~buf.data /\ ~hung
  /\ \E data \in Datas \ {<<>>} :
       MemApply("from_memory", sio_buffer_from_memory(Len(data)), data, FALSE)

MemMmapFile ==
  /\ ~buf.data /\ ~hung
  /\ \E file \in Datas \ {<<>>}, read_only \in BOOLEAN, map_ok \in BOOLEAN :
       LET r == sio_buffer_mmap_file(Len(file), map_ok)
       IN  MemApply("mmap_file", r,
                    IF map_ok THEN file ELSE <<>>, map_ok /\ read_only)

MemDestroy ==
  /\ Alive
  /\ MemApply("destroy", sio_buffer_destroy(buf), <<>>, FALSE)

MemResize ==
  /\ Alive
  /\ \E n \in {1, SIO_BUFFER_ALIGNMENT + 1}, mem_ok \in BOOLEAN :
       LET r == sio_buffer_resize(buf, n, mem_ok)
       IN  MemApply("resize", r,
                    IF r.err = "SIO_SUCCESS"
                    THEN resize_bytes(mem.bytes, buf.size, r.b.capacity)
                    ELSE mem.bytes,
                    mem.read_only)

MemClear ==
  /\ Alive
  /\ MemApply("clear", sio_buffer_clear(buf), mem.bytes, mem.read_only)

\* sio_buffer_write with the bytes: the block is reallocated when the write
\* ends beyond the capacity, then data is copied to the position.  A copy
\* into a mapping made with PROT_READ ends the process (err "SIGSEGV").
buffer_write_data(b, m, data, mem_ok) ==
  LET r     == sio_buffer_write(b, Len(data), mem_ok)
      grew  == r.b.capacity # b.capacity
      block == IF grew THEN resize_bytes(m.bytes, b.size, r.b.capacity)
               ELSE m.bytes
  IN  IF r.err # "SIO_SUCCESS" THEN [b |-> r.b, m |-> m, err |-> r.err]
      ELSE IF Len(data) > 0 /\ m.read_only
      THEN [b |-> b, m |-> m, err |-> "SIGSEGV"]
      ELSE [b |-> r.b,
            m |-> [m EXCEPT !.bytes = write_bytes(block, b.position, data)],
            err |-> r.err]

MemWrite ==
  /\ Alive
  /\ mem.writes < MaxWrites
  /\ \E data \in Datas, mem_ok \in BOOLEAN :
       LET w == buffer_write_data(buf, mem, data, mem_ok)
       IN  /\ buf' = w.b
           /\ mem' = IF w.err = "SIO_SUCCESS"
                     THEN [w.m EXCEPT !.writes = mem.writes + 1] ELSE w.m
           /\ res' = [Result("write", w.err, Len(data)) EXCEPT
                        !.past = buf.position + Len(data) > buf.capacity]
           /\ hung' = (w.err \in {"HANG", "SIGSEGV"})
           /\ rt' = IF w.err = "SIO_SUCCESS"
                    THEN [phase |-> "written", start |-> buf.position,
                          data |-> data, got |-> <<>>,
                          grew |-> w.b.capacity # buf.capacity]
                    ELSE NoRt
           /\ OnlyMem

MemSeek ==
  /\ Alive
  /\ \E position \in {0, 1, SIO_BUFFER_ALIGNMENT} :
       LET r == sio_buffer_seek(buf, position)
       IN  /\ buf' = r.b
           /\ res' = Result("seek", r.err, 0)
           /\ rt' = IF /\ rt.phase = "written" /\ r.err = "SIO_SUCCESS"
                       /\ position = rt.start
                    THEN [rt EXCEPT !.phase = "rewound"] ELSE NoRt
           /\ UNCHANGED <<mem, hung>>
           /\ OnlyMem

MemRead ==
  /\ Alive
  /\ \E size \in 0..MaxData \cup {Len(Long)} :
       LET r == sio_buffer_read(buf, size)
       IN  /\ buf' = r.b
           /\ res' = Result("read", r.err, r.n)
           /\ rt' = IF rt.phase = "rewound" /\ size = Len(rt.data)
                    THEN [rt EXCEPT
                            !.phase = "read",
                            !.got = read_bytes(mem.bytes, buf.position, r.n)]
                    ELSE NoRt
           /\ UNCHANGED <<mem, hung>>
           /\ OnlyMem

NextMem ==
  \/ MemCreateEx
  \/ MemFromMemory
  \/ MemMmapFile
  \/ MemDestroy
  \/ MemResize
  \/ MemClear
  \/ MemWrite
  \/ MemSeek
  \/ MemRead

----------------------------------------------------------------------------
(* C15: every write to a buffer that maps a file read-only fails with the  *)
(* read-only error, whatever the position and length, and modifies neither *)
(* the mapping nor the buffer's size or position.                          *)
C15_ReadOnlyMmapWrite ==
  [][(buf.data /\ buf.is_mmap /\ mem.read_only /\ res'.op = "write")
       => /\ res'.err = "SIO_ERROR_FILE_READONLY"
          /\ buf' = buf
          /\ mem'.bytes = mem.bytes]_vars

----------------------------------------------------------------------------
(* C18: for every byte sequence of length n, writing it to a buffer (also  *)
(* when the write makes the buffer grow), seeking back to the position the *)
(* write started at and reading n bytes returns the original bytes with    *)
(* count n.                                                                *)
C18_RoundTrip ==
  rt.phase = "read"
    => /\ rt.got = rt.data
       /\ res.n = Len(rt.data)
       /\ res.err = "SIO_SUCCESS"

\* the sequence that overflows the smallest buffer, written behind bytes
\* that were already there
C18_Witness ==
  /\ rt.phase = "read" /\ rt.grew
  /\ rt.data = Long /\ rt.start > 0
  /\ rt.got = Long
  /\ buf.position = rt.start + Len(Long)

----------------------------------------------------------------------------
(* The buffer pool, src/src/buf.c *)

\* the largest number of buffers a pool is created with or resized to
MaxPool == 2
\* the most buffers the caller holds at once, lost ones included
MaxHeld == MaxPool

\* the places the allocator puts the pool's array: the block in use and the
\* block a resize allocates, which may be the one an earlier resize freed
Addrs == {"block_a", "block_b"}

\* a pooled sio_buffer_t, reduced to its block of memory, its used bytes and
\* its cursor; the caller writes it from the start, so the cursor is at the end
PoolBuffer(size) == [data |-> TRUE, size |-> size, position |-> size]
\* a buffer pointer &pool->buffers[idx]: the array's address and the index
Ptr(addr, idx) == [addr |-> addr, idx |-> idx]

\* no pointer: the caller has released nothing yet
NoPtr == Ptr("null", 0)

UsedCount(p) == Cardinality({i \in 1..p.capacity : p.used_flags[i]})

\* the lowest index whose used flag is clear, 0 when every flag is set
FirstFree(p) ==
  IF \A i \in 1..p.capacity : p.used_flags[i] THEN 0
  ELSE CHOOSE i \in 1..p.capacity :
         /\ ~p.used_flags[i]
         /\ \A j \in 1..(i - 1) : p.used_flags[j]

sio_buffer_pool_create(buffer_count, addr) ==
  [buffers_addr |-> addr,
   buffers      |-> [i \in 1..buffer_count |-> PoolBuffer(0)],
   used_flags   |-> [i \in 1..buffer_count |-> FALSE],
   capacity     |-> buffer_count,
   size         |-> 0]

\* an acquire that hands the buffer back as the last holder left it
acquire_without_clear(p) ==
  LET i == FirstFree(p)
  IN  IF i = 0 THEN [p |-> p, err |-> "SIO_ERROR_BUSY", idx |-> 0]
      ELSE [p   |-> [p EXCEPT !.used_flags[i] = TRUE,
                              !.size = p.size + 1],
            err |-> "SIO_SUCCESS", idx |-> i]

\* returns the pool, the error and the index handed out (0: *buffer = NULL)
sio_buffer_pool_acquire(p) ==
  LET i == FirstFree(p)
  IN  IF i = 0 THEN [p |-> p, err |-> "SIO_ERROR_BUSY", idx |-> 0]
      ELSE [p   |-> [p EXCEPT !.used_flags[i] = TRUE,
                              !.buffers[i].size = 0,
                              !.buffers[i].position = 0,
                              !.size = p.size + 1],
            err |-> "SIO_SUCCESS", idx |-> i]

\* ptr is compared with &pool->buffers[i] for every i below the capacity
sio_buffer_pool_release(p, ptr) ==
  IF ptr.addr = p.buffers_addr /\ ptr.idx \in 1..p.capacity
  THEN IF p.used_flags[ptr.idx]
       THEN [p   |-> [p EXCEPT !.used_flags[ptr.idx] = FALSE,
                               !.size = p.size - 1],
             err |-> "SIO_SUCCESS"]
       ELSE [p |-> p, err |-> "SIO_ERROR_FILE_CLOSED"]
  ELSE [p |-> p, err |-> "SIO_ERROR_PARAM"]

\* a resize that shrinks whatever is in use
resize_below_in_use(p, new_buffer_count, new_addr, fail) ==
  IF new_buffer_count = p.capacity THEN [p |-> p, err |-> "SIO_SUCCESS"]
  ELSE [p   |-> [p EXCEPT
                   !.buffers_addr = new_addr,
                   !.buffers = [i \in 1..new_buffer_count |->
                                  IF i <= p.capacity THEN p.buffers[i]
                                  ELSE PoolBuffer(0)],
                   !.used_flags = [i \in 1..new_buffer_count |->
                                     IF i <= p.capacity THEN p.used_flags[i]
                                     ELSE FALSE],
                   !.capacity = new_buffer_count],
        err |-> "SIO_SUCCESS"]

\* fail: "none", "arrays" (malloc or calloc of the new arrays fails) or
\* "buffer" (sio_buffer_create of a new buffer fails); new_addr is where
\* malloc puts the new array
sio_buffer_pool_resize(p, new_buffer_count, new_addr, fail) ==
  IF new_buffer_count < p.size THEN [p |-> p, err |-> "SIO_ERROR_BUSY"]
  ELSE IF new_buffer_count = p.capacity THEN [p |-> p, err |-> "SIO_SUCCESS"]
  ELSE IF fail = "arrays" THEN [p |-> p, err |-> "SIO_ERROR_MEM"]
  ELSE
    LET copy_count == Min(new_buffer_count, p.capacity)
    IN  IF fail = "buffer" /\ copy_count < new_buffer_count
        THEN [p |-> p, err |-> "SIO_ERROR_MEM"]
        ELSE [p   |-> [p EXCEPT
                         !.buffers_addr = new_addr,
                         !.buffers = [i \in 1..new_buffer_count |->
                                        IF i <= copy_count THEN p.buffers[i]
                                        ELSE PoolBuffer(0)],
                         !.used_flags = [i \in 1..new_buffer_count |->
                                           IF i <= copy_count THEN p.used_flags[i]
                                           ELSE FALSE],
                         !.capacity = new_buffer_count],
              err |-> "SIO_SUCCESS"]

----------------------------------------------------------------------------
(* SpecPool: one pool and a caller that acquires, fills, releases, resizes *)

\* ptr is the pointer an acquire handed out or a release was given, count
\* the new_buffer_count a resize was given
NoPres ==
  [op |-> "none", err |-> "SIO_SUCCESS", was_held |-> FALSE, ptr |-> NoPtr,
   count |-> 0]
PoolResult(op, err, was_held) == [NoPres EXCEPT !.op = op, !.err = err,
                                                !.was_held = was_held]

HeldPtrs == {Ptr(h.addr, h.idx) : h \in held}

PoolAcquire ==
  LET r == sio_buffer_pool_acquire(pool)
  IN  /\ Cardinality(held) < MaxHeld
      /\ pool.size < MaxHeld
      /\ pool' = r.p
      /\ held' = IF r.idx = 0 THEN held
                 ELSE held \cup {[addr |-> pool.buffers_addr, idx |-> r.idx,
                                  fill |-> 0]}
      /\ released' = IF r.idx # 0 /\ released = Ptr(pool.buffers_addr, r.idx)
                     THEN NoPtr ELSE released
      /\ pres' = [PoolResult("acquire", r.err, FALSE) EXCEPT
                     !.ptr = IF r.idx = 0 THEN NoPtr
                             ELSE Ptr(pool.buffers_addr, r.idx)]
      /\ OnlyPool

\* the caller writes one byte into an empty buffer it holds, through a
\* pointer that still points into the pool's array
PoolFill ==
  \E h \in held :
    /\ h.addr = pool.buffers_addr
    /\ h.idx \in 1..pool.capacity
    /\ h.fill = 0
    /\ pool' = [pool EXCEPT !.buffers[h.idx] = PoolBuffer(1)]
    /\ held' = (held \ {h}) \cup {[h EXCEPT !.fill = 1]}
    /\ pres' = PoolResult("fill", "SIO_SUCCESS", TRUE)
    /\ UNCHANGED released
    /\ OnlyPool

\* the buffers of the pool's array nobody has acquired, which the caller
\* reaches through pool->buffers
Unacquired ==
  {Ptr(pool.buffers_addr, i) : i \in {j \in 1..pool.capacity :
                                       ~pool.used_flags[j]}}

\* the caller gives back a pointer it got from acquire, held or not, or one
\* to a buffer it never acquired
PoolRelease ==
  \E ptr \in HeldPtrs \cup ({released} \ {NoPtr}) \cup Unacquired :
    LET r == sio_buffer_pool_release(pool, ptr)
    IN  /\ pool' = r.p
        /\ held' = IF r.err = "SIO_SUCCESS"
                   THEN {h \in held : Ptr(h.addr, h.idx) # ptr}
                   ELSE held
        /\ released' = IF r.err = "SIO_SUCCESS" THEN ptr ELSE released
        /\ pres' = [PoolResult("release", r.err, ptr \in HeldPtrs) EXCEPT
                       !.ptr = ptr]
        /\ OnlyPool

PoolResize ==
  \E n \in 0..MaxPool, a \in Addrs \ {pool.buffers_addr},
     fail \in {"none", "arrays", "buffer"} :
    LET r == sio_buffer_pool_resize(pool, n, a, fail)
    IN  /\ pool' = r.p
        /\ pres' = [PoolResult("resize", r.err, FALSE) EXCEPT !.count = n]
        /\ UNCHANGED <<held, released>>
        /\ OnlyPool

NextPool ==
  \/ PoolAcquire
  \/ PoolFill
  \/ PoolRelease
  \/ PoolResize

----------------------------------------------------------------------------
(* C2: at all times the number of set used flags of the pool equals the   *)
(* number of buffers acquired and not yet released.                       *)
C2_PoolAccounting == UsedCount(pool) = Cardinality(held)

(* C3: a successful pool resize preserves every in-use buffer: it is      *)
(* still in the pool, still marked used, keeps its contents, and a later  *)
(* release of it is accepted.                                             *)
InUsePreserved(h) ==
  /\ h.idx \in 1..pool.capacity
  /\ pool.used_flags[h.idx]
  /\ pool.buffers[h.idx].data
  /\ pool.buffers[h.idx].size = h.fill

C3_ResizePreservesInUse ==
  /\ (pres.op = "resize" /\ pres.err = "SIO_SUCCESS") =>
       \A h \in held : InUsePreserved(h)
  /\ (pres.op = "release" /\ pres.was_held) => pres.err = "SIO_SUCCESS"

(* C19: pool acquire returns the buffer at the lowest free index, marks it *)
(* used and hands it back cleared (size 0, position 0); when every buffer *)
(* is in use it returns busy and changes no flag.                         *)
FreeIndexes == {i \in 1..pool.capacity : ~pool.used_flags[i]}

C19_AcquireLowestFree ==
  [][pres'.op = "acquire" =>
       IF FreeIndexes = {}
       THEN /\ pres'.err = "SIO_ERROR_BUSY"
            /\ pres'.ptr = NoPtr
            /\ pool'.used_flags = pool.used_flags
       ELSE \E i \in FreeIndexes :
              /\ \A j \in FreeIndexes : i <= j
              /\ pres'.err = "SIO_SUCCESS"
              /\ pres'.ptr = Ptr(pool'.buffers_addr, i)
              /\ pool'.used_flags = [pool.used_flags EXCEPT ![i] = TRUE]
              /\ pool'.buffers[i].size = 0
              /\ pool'.buffers[i].position = 0]_vars

\* the first buffer was released and acquired again while the second, which
\* its holder has written to, stayed in use: the lowest free index is not
\* the one after the last acquired
C19_Witness ==
  /\ pres.op = "acquire" /\ pres.err = "SIO_SUCCESS"
  /\ pres.ptr = Ptr(pool.buffers_addr, 1)
  /\ pool.capacity >= 2
  /\ pool.used_flags[1] /\ pool.used_flags[2]
  /\ pool.buffers[1].size = 0 /\ pool.buffers[1].position = 0
  /\ pool.buffers[2].size = 1

(* C20: releasing a pool buffer whose used flag is already clear, because *)
(* it was released earlier or never acquired, returns the already-closed  *)
(* error and leaves every used flag and the in-use count unchanged.       *)
C20_ReleaseAlreadyClear ==
  [][(/\ pres'.op = "release"
      /\ pres'.ptr.idx \in 1..pool.capacity
      /\ ~pool.used_flags[pres'.ptr.idx]) =>
       /\ pres'.err = "SIO_ERROR_FILE_CLOSED"
       /\ pool'.used_flags = pool.used_flags
       /\ pool'.size = pool.size]_vars

(* C21: a pool resize to a count smaller than the number of buffers in    *)
(* use returns busy and leaves the pool's buffers, flags, capacity and    *)
(* in-use count unchanged.                                                *)
C21_ResizeBelowInUse ==
  [][(pres'.op = "resize" /\ pres'.count < pool.size) =>
       /\ pres'.err = "SIO_ERROR_BUSY"
       /\ pool' = pool]_vars

\* two buffers are in use, one of them written to, and the caller asked
\* for a pool of one
C21_Witness ==
  /\ pres.op = "resize" /\ pres.err = "SIO_ERROR_BUSY"
  /\ pres.count = 1 /\ pool.size = 2 /\ pool.capacity = 2
  /\ pool.used_flags[1] /\ pool.used_flags[2]
  /\ \E h \in held : h.fill = 1

----------------------------------------------------------------------------
(* Streams: the core of src/src/stream.c over the POSIX backends *)

StreamTypes ==
  {"SIO_STREAM_FILE", "SIO_STREAM_SOCKET", "SIO_STREAM_PSEUDO_SOCKET",
   "SIO_STREAM_TIMER", "SIO_STREAM_SIGNAL", "SIO_STREAM_BUFFER",
   "SIO_STREAM_RAWMEM"}

\* a sio_stream_t after memset(stream, 0, sizeof(sio_stream_t)); ops names the
\* backend whose table stream->ops points to, buffer says where
\* data.buffer.buffer points, rawmem whether data.rawmem.data is set, size
\* and position are data.rawmem.size and data.rawmem.position
ZeroStream ==
  [type |-> "SIO_STREAM_UNKNOWN", flags |-> 0, ops |-> "NULL", fd |-> 0,
   mmap_data |-> FALSE, buffer |-> "NULL", owns_buffer |-> FALSE,
   rawmem |-> FALSE, size |-> 0, position |-> 0]

\* the descriptor the caller hands to a from_handle constructor
NativeFd == 3

\* errno to sio_error_t
sio_get_last_error(errno) ==
  CASE errno = "0"      -> "SIO_SUCCESS"
    [] errno = "EINTR"  -> "SIO_ERROR_INTERRUPTED"
    [] errno = "EIO"    -> "SIO_ERROR_IO"
    [] errno = "EBADF"  -> "SIO_ERROR_PARAM"
    [] errno = "EAGAIN" -> "SIO_ERROR_WOULDBLOCK"
    [] OTHER            -> "SIO_ERROR_GENERIC"

sio_stream_open_file_from_handle(handle, opt) ==
  [ZeroStream EXCEPT !.type = "SIO_STREAM_FILE", !.flags = opt,
                     !.ops = "file_ops", !.fd = handle]

sio_stream_open_socket_from_handle(handle, opt) ==
  [ZeroStream EXCEPT !.type = "SIO_STREAM_SOCKET", !.flags = opt,
                     !.ops = "socket_ops", !.fd = handle]

\* a datagram client as sio_stream_open_socket leaves it once the socket
\* has been created
open_pseudo_socket(handle, opt) ==
  [ZeroStream EXCEPT !.type = "SIO_STREAM_PSEUDO_SOCKET", !.flags = opt,
                     !.ops = "pseudo_socket_ops", !.fd = handle]

sio_stream_open_timer_from_handle(handle, opt) ==
  [ZeroStream EXCEPT !.type = "SIO_STREAM_TIMER", !.flags = opt,
                     !.ops = "timer_ops", !.fd = handle]

sio_stream_open_signal_from_handle(handle, opt) ==
  [ZeroStream EXCEPT !.type = "SIO_STREAM_SIGNAL", !.flags = opt,
                     !.ops = "signal_ops", !.fd = handle]

\* returns the stream and the buffer it wraps; given = the caller passed a
\* buffer of its own (b), otherwise the stream allocates one
sio_stream_open_buffer(b, given, initial_size, opt, mem_ok) ==
  LET s == [ZeroStream EXCEPT !.type = "SIO_STREAM_BUFFER", !.flags = opt,
                              !.ops = "buffer_ops"]
  IN  IF given
      THEN [s |-> [s EXCEPT !.buffer = "caller", !.owns_buffer = FALSE],
            b |-> b, err |-> "SIO_SUCCESS"]
      ELSE IF ~mem_ok THEN [s |-> s, b |-> b, err |-> "SIO_ERROR_MEM"]
      ELSE
        LET r == sio_buffer_create(initial_size, mem_ok)
        IN  IF r.err # "SIO_SUCCESS" THEN [s |-> s, b |-> b, err |-> r.err]
            ELSE [s |-> [s EXCEPT !.buffer = "heap", !.owns_buffer = TRUE],
                  b |-> r.b, err |-> "SIO_SUCCESS"]

sio_stream_open_memory(size, opt) ==
  [ZeroStream EXCEPT !.type = "SIO_STREAM_RAWMEM", !.flags = opt,
                     !.ops = "rawmem_ops", !.rawmem = TRUE, !.size = size]

\* what close(fd) does: k.open says whether the kernel holds the descriptor,
\* errno is what a close of an open descriptor reports ("0" on success).  A
\* close that fails may or may not have released the descriptor (kept).
sys_close(fd, k, errno, kept) ==
  IF fd < 0 \/ ~k.open THEN [open |-> k.open, errno |-> "EBADF"]
  ELSE IF errno = "0" THEN [open |-> FALSE, errno |-> "0"]
  ELSE [open |-> kept, errno |-> errno]

\* the close functions return the stream, the buffer behind it, the error,
\* the kernel's view of the descriptor and whether close(fd) was called
CloseRet(s, b, err, k, native) ==
  [s |-> s, b |-> b, err |-> err, k |-> k, native |-> native]

file_close(s, b, k, errno, kept, unmap_ok) ==
  LET c  == sys_close(s.fd, k, errno, kept)
      s1 == IF s.fd >= 0 THEN [s EXCEPT !.fd = -1] ELSE s
      k1 == IF s.fd >= 0 THEN [open |-> c.open] ELSE k
  IN  IF s.fd >= 0 /\ c.errno # "0"
      THEN CloseRet(s, b, sio_get_last_error(c.errno), k1, TRUE)
      ELSE IF s1.mmap_data
      THEN IF ~unmap_ok
           THEN CloseRet(s1, b, sio_get_last_error("EIO"), k1, s.fd >= 0)
           ELSE CloseRet([s1 EXCEPT !.mmap_data = FALSE], b, "SIO_SUCCESS",
                         k1, s.fd >= 0)
      ELSE CloseRet(s1, b, "SIO_SUCCESS", k1, s.fd >= 0)

socket_close(s, b, k, errno, kept) ==
  IF s.type \in {"SIO_STREAM_SOCKET", "SIO_STREAM_PSEUDO_SOCKET"} /\ s.fd >= 0
  THEN LET c == sys_close(s.fd, k, errno, kept)
       IN  IF c.errno # "0"
           THEN CloseRet(s, b, sio_get_last_error(c.errno), [open |-> c.open], TRUE)
           ELSE CloseRet([s EXCEPT !.fd = -1], b, "SIO_SUCCESS",
                         [open |-> c.open], TRUE)
  ELSE CloseRet(s, b, "SIO_SUCCESS", k, FALSE)

\* a close that succeeds and leaves the descriptor number in the stream
timer_close_keeps_fd(s, b, k, errno, kept) ==
  IF s.fd >= 0
  THEN LET c == sys_close(s.fd, k, errno, kept)
       IN  IF c.errno # "0"
           THEN CloseRet(s, b, sio_get_last_error(c.errno), [open |-> c.open], TRUE)
           ELSE CloseRet(s, b, "SIO_SUCCESS", [open |-> c.open], TRUE)
  ELSE CloseRet(s, b, "SIO_SUCCESS", k, FALSE)

timer_close(s, b, k, errno, kept) ==
  IF s.fd >= 0
  THEN LET c == sys_close(s.fd, k, errno, kept)
       IN  IF c.errno # "0"
           THEN CloseRet(s, b, sio_get_last_error(c.errno), [open |-> c.open], TRUE)
           ELSE CloseRet([s EXCEPT !.fd = -1], b, "SIO_SUCCESS",
                         [open |-> c.open], TRUE)
  ELSE CloseRet(s, b, "SIO_SUCCESS", k, FALSE)

\* the sigprocmask(SIG_UNBLOCK) before close(fd) changes the signal mask only
signal_close(s, b, k, errno, kept) ==
  IF s.fd >= 0
  THEN LET c == sys_close(s.fd, k, errno, kept)
       IN  IF c.errno # "0"
           THEN CloseRet(s, b, sio_get_last_error(c.errno), [open |-> c.open], TRUE)
           ELSE CloseRet([s EXCEPT !.fd = -1], b, "SIO_SUCCESS",
                         [open |-> c.open], TRUE)
  ELSE CloseRet(s, b, "SIO_SUCCESS", k, FALSE)

\* a close that destroys the buffer whether or not the stream owns it
buffer_close_ignores_owner(s, b, k) ==
  IF s.buffer # "NULL"
  THEN LET d == sio_buffer_destroy(b)
       IN  IF d.err # "SIO_SUCCESS" THEN CloseRet(s, b, d.err, k, FALSE)
           ELSE CloseRet([s EXCEPT !.buffer = "NULL"], d.b, "SIO_SUCCESS", k, FALSE)
  ELSE CloseRet(s, b, "SIO_SUCCESS", k, FALSE)

buffer_close(s, b, k) ==
  IF s.buffer # "NULL" /\ s.owns_buffer
  THEN LET d == sio_buffer_destroy(b)
       IN  IF d.err # "SIO_SUCCESS" THEN CloseRet(s, b, d.err, k, FALSE)
           ELSE CloseRet([s EXCEPT !.buffer = "NULL"], d.b, "SIO_SUCCESS", k, FALSE)
  ELSE CloseRet(s, b, "SIO_SUCCESS", k, FALSE)

rawmem_close(s, b, k) ==
  CloseRet([s EXCEPT !.rawmem = FALSE, !.size = 0, !.position = 0], b,
           "SIO_SUCCESS", k, FALSE)

check_stream_valid(s) ==
  IF s.ops = "NULL" THEN "SIO_ERROR_PARAM" ELSE "SIO_SUCCESS"

\* stream->ops->close(stream) through the backend's table
sio_stream_close(s, b, k, errno, kept, unmap_ok) ==
  IF check_stream_valid(s) # "SIO_SUCCESS"
  THEN CloseRet(s, b, check_stream_valid(s), k, FALSE)
  ELSE CASE s.ops = "file_ops"   -> file_close(s, b, k, errno, kept, unmap_ok)
         [] s.ops \in {"socket_ops", "pseudo_socket_ops"} ->
              socket_close(s, b, k, errno, kept)
         [] s.ops = "timer_ops"  -> timer_close(s, b, k, errno, kept)
         [] s.ops = "signal_ops" -> signal_close(s, b, k, errno, kept)
         [] s.ops = "buffer_ops" -> buffer_close(s, b, k)
         [] s.ops = "rawmem_ops" -> rawmem_close(s, b, k)

----------------------------------------------------------------------------
(* Per-call flags and the system calls behind read and write *)

\* enum sio_stream_fflag: the first two enumerators take the values 0 and 1,
\* the others the values of the platform's MSG_ constants
SIO_DOALL == 0
SIO_DOALL_NONBLOCK == 1
SIO_MSG_OOB == 1
SIO_MSG_DONTROUTE == 4
SIO_MSG_DONTWAIT == 64
SIO_MSG_NOSIGNAL == 16384

\* a | b
BitOr(a, b) == a + b - BitAnd(a, b)
\* a & ~b
BitClear(a, b) == a - BitAnd(a, b)

FlagValue(name) ==
  CASE name = "SIO_DOALL"          -> SIO_DOALL
    [] name = "SIO_DOALL_NONBLOCK" -> SIO_DOALL_NONBLOCK
    [] name = "SIO_MSG_DONTWAIT"   -> SIO_MSG_DONTWAIT

\* the flags word a caller builds by or-ing the named flags
RECURSIVE FlagWord(_)
FlagWord(req) ==
  IF req = {} THEN 0
  ELSE LET f == CHOOSE x \in req : TRUE
       IN  BitOr(FlagValue(f), FlagWord(req \ {f}))

\* the native flags socket_read and socket_write pass to recv and send
recv_flags(flags) ==
  (IF BitAnd(flags, SIO_MSG_DONTWAIT) # 0 THEN SIO_MSG_DONTWAIT ELSE 0)
  + (IF BitAnd(flags, SIO_MSG_OOB) # 0 THEN SIO_MSG_OOB ELSE 0)

send_flags(flags) ==
  recv_flags(flags)
  + (IF BitAnd(flags, SIO_MSG_DONTROUTE) # 0 THEN SIO_MSG_DONTROUTE ELSE 0)
  + (IF BitAnd(flags, SIO_MSG_NOSIGNAL) # 0 THEN SIO_MSG_NOSIGNAL ELSE 0)

\* the largest size a caller asks a read or write for
MaxSize == 3

\* what one read, write, recv or send returns: a byte count, or -1 and errno
SysOk(k) == [result |-> k, errno |-> "0"]
SysErr(e) == [result |-> -1, errno |-> e]

\* the kernel transfers nothing, one byte, or all that was asked for
Outcomes ==
  {SysOk(k) : k \in {0, 1, MaxSize}}
    \cup {SysErr(e) : e \in {"EINTR", "EAGAIN", "EIO"}}

\* what the kernel answers to the first call, to the second, and to every
\* call after that; a signal does not interrupt every call for ever
Scripts ==
  {<<a, b, c>> : a \in Outcomes, b \in Outcomes,
                 c \in Outcomes \ {SysErr("EINTR")}}

SysAt(script, at) == script[IF at < Len(script) THEN at ELSE Len(script)]

\* the call number at on descriptor fd for len bytes: never more than len
sys_xfer(fd, script, at, len) ==
  IF fd < 0 THEN SysErr("EBADF")
  ELSE LET o == SysAt(script, at)
       IN  IF o.result > len THEN SysOk(len) ELSE o

\* a backend read or write returns the error, the count stored through the
\* out-parameter, the number of the next system call, and the native flags
\* of its last recv or send
IoRet(err, n, at, msg) == [err |-> err, n |-> n, at |-> at, msg |-> msg]

\* what the kernel has for a caller that keeps calling until size bytes are
\* through or a call returns 0 or fails: the bytes, what stopped it, and
\* whether a signal interrupted a call on the way
RECURSIVE Drain(_, _, _, _, _)
Drain(script, at, size, total, intr) ==
  IF total >= size THEN [n |-> total, ending |-> "full", intr |-> intr]
  ELSE LET o == sys_xfer(NativeFd, script, at, size - total)
       IN  IF o.errno = "EINTR" THEN Drain(script, at + 1, size, total, TRUE)
           ELSE IF o.result < 0
           THEN [n |-> total, ending |-> o.errno, intr |-> intr]
           ELSE IF o.result = 0
           THEN [n |-> total, ending |-> "zero", intr |-> intr]
           ELSE Drain(script, at + 1, size, total + o.result, intr)

----------------------------------------------------------------------------
(* The backends' read and write, src/src/stream/file.c and sock.c *)

RECURSIVE file_read_once(_, _, _, _)
file_read_once(s, size, script, at) ==
  LET o == sys_xfer(s.fd, script, at, size)
  IN  IF o.result < 0 /\ o.errno = "EINTR"
      THEN file_read_once(s, size, script, at + 1)
      ELSE IF o.result < 0
      THEN IoRet(sio_get_last_error(o.errno), 0, at + 1, 0)
      ELSE IoRet(IF o.result > 0 THEN "SIO_SUCCESS" ELSE "SIO_ERROR_EOF",
                 o.result, at + 1, 0)

RECURSIVE file_read_all(_, _, _, _, _, _)
file_read_all(s, size, flags, script, at, total_read) ==
  LET o    == sys_xfer(s.fd, script, at, size - total_read)
      sum  == total_read + o.result
      done(n) == IoRet(IF n = size THEN "SIO_SUCCESS" ELSE "SIO_ERROR_EOF",
                       n, at + 1, 0)
  IN  IF total_read >= size THEN IoRet("SIO_SUCCESS", total_read, at, 0)
      ELSE IF o.result < 0 /\ o.errno = "EINTR"
      THEN file_read_all(s, size, flags, script, at + 1, total_read)
      ELSE IF o.result < 0
      THEN IoRet(sio_get_last_error(o.errno), total_read, at + 1, 0)
      ELSE IF o.result = 0 THEN done(total_read)
      ELSE IF BitAnd(flags, SIO_DOALL_NONBLOCK) # 0 THEN done(sum)
      ELSE IF sum >= size THEN done(sum)
      ELSE file_read_all(s, size, flags, script, at + 1, sum)

file_read(s, size, flags, script, at) ==
  IF size = 0 THEN IoRet("SIO_SUCCESS", 0, at, 0)
  ELSE IF BitAnd(flags, SIO_DOALL) # 0
  THEN file_read_all(s, size, flags, script, at, 0)
  ELSE file_read_once(s, size, script, at)

RECURSIVE file_write_once(_, _, _, _)
file_write_once(s, size, script, at) ==
  LET o == sys_xfer(s.fd, script, at, size)
  IN  IF o.result < 0 /\ o.errno = "EINTR"
      THEN file_write_once(s, size, script, at + 1)
      ELSE IF o.result < 0
      THEN IoRet(sio_get_last_error(o.errno), 0, at + 1, 0)
      ELSE IoRet("SIO_SUCCESS", o.result, at + 1, 0)

RECURSIVE file_write_all(_, _, _, _, _, _)
file_write_all(s, size, flags, script, at, total_written) ==
  LET o    == sys_xfer(s.fd, script, at, size - total_written)
      sum  == total_written + o.result
      done(n) == IoRet(IF n = size THEN "SIO_SUCCESS" ELSE "SIO_ERROR_IO",
                       n, at + 1, 0)
  IN  IF total_written >= size THEN IoRet("SIO_SUCCESS", total_written, at, 0)
      ELSE IF o.result < 0 /\ o.errno = "EINTR"
      THEN file_write_all(s, size, flags, script, at + 1, total_written)
      ELSE IF o.result < 0
      THEN IoRet(sio_get_last_error(o.errno), total_written, at + 1, 0)
      ELSE IF o.result = 0 THEN done(sum)
      ELSE IF BitAnd(flags, SIO_DOALL_NONBLOCK) # 0 THEN done(sum)
      ELSE IF sum >= size THEN done(sum)
      ELSE file_write_all(s, size, flags, script, at + 1, sum)

file_write(s, size, flags, script, at) ==
  IF size = 0 THEN IoRet("SIO_SUCCESS", 0, at, 0)
  ELSE IF BitAnd(flags, SIO_DOALL) # 0
  THEN file_write_all(s, size, flags, script, at, 0)
  ELSE file_write_once(s, size, script, at)

\* recvfrom and sendto of a datagram client: one call, no retry
pseudo_socket_read(s, size, flags, script, at) ==
  LET o == sys_xfer(s.fd, script, at, size)
  IN  IF o.result < 0
      THEN IoRet(IF o.errno = "EAGAIN" THEN "SIO_ERROR_WOULDBLOCK"
                 ELSE sio_get_last_error(o.errno), 0, at + 1, recv_flags(flags))
      ELSE IoRet(IF o.result > 0 THEN "SIO_SUCCESS" ELSE "SIO_ERROR_EOF",
                 o.result, at + 1, recv_flags(flags))

pseudo_socket_write(s, size, flags, script, at) ==
  LET o == sys_xfer(s.fd, script, at, size)
  IN  IF o.result < 0
      THEN IoRet(IF o.errno = "EAGAIN" THEN "SIO_ERROR_WOULDBLOCK"
                 ELSE sio_get_last_error(o.errno), 0, at + 1, send_flags(flags))
      ELSE IoRet("SIO_SUCCESS", o.result, at + 1, send_flags(flags))

RECURSIVE socket_read_once(_, _, _, _, _)
socket_read_once(s, size, flags, script, at) ==
  LET o == sys_xfer(s.fd, script, at, size)
  IN  IF o.result < 0 /\ o.errno = "EINTR"
      THEN socket_read_once(s, size, flags, script, at + 1)
      ELSE IF o.result < 0
      THEN IoRet(IF o.errno = "EAGAIN" THEN "SIO_ERROR_WOULDBLOCK"
                 ELSE sio_get_last_error(o.errno), 0, at + 1, recv_flags(flags))
      ELSE IoRet(IF o.result > 0 THEN "SIO_SUCCESS" ELSE "SIO_ERROR_EOF",
                 o.result, at + 1, recv_flags(flags))

RECURSIVE socket_read_all(_, _, _, _, _, _)
socket_read_all(s, size, flags, script, at, total_read) ==
  LET o   == sys_xfer(s.fd, script, at, size - total_read)
      sum == total_read + o.result
      m   == recv_flags(flags)
  IN  IF total_read >= size THEN IoRet("SIO_SUCCESS", total_read, at, m)
      ELSE IF o.result < 0 /\ o.errno = "EINTR"
      THEN socket_read_all(s, size, flags, script, at + 1, total_read)
      ELSE IF o.result < 0 /\ o.errno = "EAGAIN"
      THEN IF total_read > 0 THEN IoRet("SIO_SUCCESS", total_read, at + 1, m)
           ELSE IoRet("SIO_ERROR_WOULDBLOCK", 0, at + 1, m)
      ELSE IF o.result < 0
      THEN IoRet(sio_get_last_error(o.errno), total_read, at + 1, m)
      ELSE IF o.result = 0
      THEN IoRet(IF total_read > 0 THEN "SIO_SUCCESS" ELSE "SIO_ERROR_EOF",
                 total_read, at + 1, m)
      ELSE IF BitAnd(flags, SIO_DOALL_NONBLOCK) # 0 \/ sum >= size
      THEN IoRet("SIO_SUCCESS", sum, at + 1, m)
      ELSE socket_read_all(s, size, flags, script, at + 1, sum)

socket_read(s, size, flags, script, at) ==
  IF size = 0 THEN IoRet("SIO_SUCCESS", 0, at, 0)
  ELSE IF s.fd < 0 THEN IoRet("SIO_ERROR_NET_NOT_SOCK", 0, at, 0)
  ELSE IF s.type = "SIO_STREAM_PSEUDO_SOCKET"
  THEN pseudo_socket_read(s, size, flags, script, at)
  ELSE IF BitAnd(flags, SIO_DOALL) # 0
  THEN socket_read_all(s, size, flags, script, at, 0)
  ELSE socket_read_once(s, size, flags, script, at)

\* a send that reports a short count as would-block
RECURSIVE socket_write_short_is_wouldblock(_, _, _, _, _)
socket_write_short_is_wouldblock(s, size, flags, script, at) ==
  LET o == sys_xfer(s.fd, script, at, size)
  IN  IF o.result < 0 /\ o.errno = "EINTR"
      THEN socket_write_short_is_wouldblock(s, size, flags, script, at + 1)
      ELSE IF o.result < 0 \/ o.result < size
      THEN IoRet(IF o.result >= 0 \/ o.errno = "EAGAIN"
                 THEN "SIO_ERROR_WOULDBLOCK"
                 ELSE sio_get_last_error(o.errno),
                 IF o.result > 0 THEN o.result ELSE 0, at + 1, send_flags(flags))
      ELSE IoRet("SIO_SUCCESS", o.result, at + 1, send_flags(flags))

RECURSIVE socket_write_once(_, _, _, _, _)
socket_write_once(s, size, flags, script, at) ==
  LET o == sys_xfer(s.fd, script, at, size)
  IN  IF o.result < 0 /\ o.errno = "EINTR"
      THEN socket_write_once(s, size, flags, script, at + 1)
      ELSE IF o.result < 0
      THEN IoRet(IF o.errno = "EAGAIN" THEN "SIO_ERROR_WOULDBLOCK"
                 ELSE sio_get_last_error(o.errno), 0, at + 1, send_flags(flags))
      ELSE IoRet("SIO_SUCCESS", o.result, at + 1, send_flags(flags))

\* err "HANG": send keeps returning 0 and the loop never ends
RECURSIVE socket_write_all(_, _, _, _, _, _)
socket_write_all(s, size, flags, script, at, total_written) ==
  LET o   == sys_xfer(s.fd, script, at, size - total_written)
      sum == total_written + o.result
      m   == send_flags(flags)
  IN  IF total_written >= size THEN IoRet("SIO_SUCCESS", total_written, at, m)
      ELSE IF o.result < 0 /\ o.errno = "EINTR"
      THEN socket_write_all(s, size, flags, script, at + 1, total_written)
      ELSE IF o.result < 0 /\ o.errno = "EAGAIN"
      THEN IF total_written > 0
           THEN IoRet("SIO_SUCCESS", total_written, at + 1, m)
           ELSE IoRet("SIO_ERROR_WOULDBLOCK", 0, at + 1, m)
      ELSE IF o.result < 0
      THEN IoRet(sio_get_last_error(o.errno), total_written, at + 1, m)
      ELSE IF BitAnd(flags, SIO_DOALL_NONBLOCK) # 0 \/ sum >= size
      THEN IoRet("SIO_SUCCESS", sum, at + 1, m)
      ELSE IF o.result = 0 /\ at >= Len(script)
      THEN IoRet("HANG", total_written, at, m)
      ELSE socket_write_all(s, size, flags, script, at + 1, sum)

socket_write(s, size, flags, script, at) ==
  IF size = 0 THEN IoRet("SIO_SUCCESS", 0, at, 0)
  ELSE IF s.fd < 0 THEN IoRet("SIO_ERROR_NET_NOT_SOCK", 0, at, 0)
  ELSE IF s.type = "SIO_STREAM_PSEUDO_SOCKET"
  THEN pseudo_socket_write(s, size, flags, script, at)
  ELSE IF BitAnd(flags, SIO_DOALL) # 0
  THEN socket_write_all(s, size, flags, script, at, 0)
  ELSE socket_write_once(s, size, flags, script, at)

----------------------------------------------------------------------------
(* The memory backends' read and write, src/src/stream/memory.c *)

\* what a memory backend returns: the error, the count, and the stream and
\* the buffer as the call leaves them; it makes no system call
MemRet(err, n, s, b) ==
  [err |-> err, n |-> n, at |-> 1, msg |-> 0, s |-> s, b |-> b]

\* a read that reports the end of the buffer as success
buffer_read_hides_eof(s, b, size) ==
  IF size = 0 THEN MemRet("SIO_SUCCESS", 0, s, b)
  ELSE IF BitAnd(s.flags, SIO_STREAM_READ) = 0 THEN MemRet("SIO_ERROR_PERM", 0, s, b)
  ELSE IF s.buffer = "NULL" THEN MemRet("SIO_ERROR_IO", 0, s, b)
  ELSE LET r == sio_buffer_read(b, size)
       IN  MemRet(IF r.err = "SIO_ERROR_EOF" THEN "SIO_SUCCESS" ELSE r.err,
                  r.n, s, r.b)

buffer_read(s, b, size) ==
  IF size = 0 THEN MemRet("SIO_SUCCESS", 0, s, b)
  ELSE IF BitAnd(s.flags, SIO_STREAM_READ) = 0 THEN MemRet("SIO_ERROR_PERM", 0, s, b)
  ELSE IF s.buffer = "NULL" THEN MemRet("SIO_ERROR_IO", 0, s, b)
  ELSE LET r == sio_buffer_read(b, size)
       IN  MemRet(IF r.err = "SIO_ERROR_EOF" /\ r.n > 0 THEN "SIO_SUCCESS"
                  ELSE r.err, r.n, s, r.b)

buffer_write(s, b, size, mem_ok) ==
  IF size = 0 THEN MemRet("SIO_SUCCESS", 0, s, b)
  ELSE IF BitAnd(s.flags, SIO_STREAM_WRITE) = 0 THEN MemRet("SIO_ERROR_PERM", 0, s, b)
  ELSE IF s.buffer = "NULL" THEN MemRet("SIO_ERROR_IO", 0, s, b)
  ELSE LET r == sio_buffer_write(b, size, mem_ok)
       IN  MemRet(r.err, IF r.err = "SIO_SUCCESS" THEN size ELSE 0, s, r.b)

rawmem_read(s, size) ==
  IF size = 0 THEN MemRet("SIO_SUCCESS", 0, s, ZeroBuffer)
  ELSE IF BitAnd(s.flags, SIO_STREAM_READ) = 0
  THEN MemRet("SIO_ERROR_PERM", 0, s, ZeroBuffer)
  ELSE IF ~s.rawmem THEN MemRet("SIO_ERROR_IO", 0, s, ZeroBuffer)
  ELSE IF s.position >= s.size THEN MemRet("SIO_ERROR_EOF", 0, s, ZeroBuffer)
  ELSE LET read_size == Min(size, s.size - s.position)
       IN  MemRet(IF read_size < size THEN "SIO_ERROR_EOF" ELSE "SIO_SUCCESS",
                  read_size,
                  [s EXCEPT !.position = (s.position + read_size) % SizeMod],
                  ZeroBuffer)

\* a write that copies all it was given from the position on
rawmem_write_unclamped(s, size) ==
  IF size = 0 THEN MemRet("SIO_SUCCESS", 0, s, ZeroBuffer)
  ELSE IF BitAnd(s.flags, SIO_STREAM_WRITE) = 0
  THEN MemRet("SIO_ERROR_PERM", 0, s, ZeroBuffer)
  ELSE IF ~s.rawmem THEN MemRet("SIO_ERROR_IO", 0, s, ZeroBuffer)
  ELSE IF s.position >= s.size THEN MemRet("SIO_ERROR_IO", 0, s, ZeroBuffer)
  ELSE MemRet("SIO_SUCCESS", size,
              [s EXCEPT !.position = (s.position + size) % SizeMod],
              ZeroBuffer)

rawmem_write(s, size) ==
  IF size = 0 THEN MemRet("SIO_SUCCESS", 0, s, ZeroBuffer)
  ELSE IF BitAnd(s.flags, SIO_STREAM_WRITE) = 0
  THEN MemRet("SIO_ERROR_PERM", 0, s, ZeroBuffer)
  ELSE IF ~s.rawmem THEN MemRet("SIO_ERROR_IO", 0, s, ZeroBuffer)
  ELSE IF s.position >= s.size THEN MemRet("SIO_ERROR_IO", 0, s, ZeroBuffer)
  ELSE LET write_size == Min(size, s.size - s.position)
       IN  MemRet("SIO_SUCCESS", write_size,
                  [s EXCEPT !.position = (s.position + write_size) % SizeMod],
                  ZeroBuffer)

----------------------------------------------------------------------------
(* sio_stream_read and sio_stream_write, src/src/stream.c *)

\* stream->ops->read and stream->ops->write through the backend's table;
\* env is the script of system call results for a stream over a descriptor
\* and the buffer behind the stream for a buffer stream
ops_read(s, size, flags, env, at) ==
  CASE s.ops = "file_ops" -> file_read(s, size, flags, env, at)
    [] s.ops \in {"socket_ops", "pseudo_socket_ops"} ->
         socket_read(s, size, flags, env, at)
    [] s.ops = "buffer_ops" -> buffer_read(s, env.b, size)
    [] s.ops = "rawmem_ops" -> rawmem_read(s, size)

ops_write(s, size, flags, env, at) ==
  CASE s.ops = "file_ops" -> file_write(s, size, flags, env, at)
    [] s.ops \in {"socket_ops", "pseudo_socket_ops"} ->
         socket_write(s, size, flags, env, at)
    [] s.ops = "buffer_ops" -> buffer_write(s, env.b, size, env.mem_ok)
    [] s.ops = "rawmem_ops" -> rawmem_write(s, size)

\* the DOALL loop of sio_stream_read, from total_read bytes on
RECURSIVE stream_read_all(_, _, _, _, _, _)
\* the rest of one round of the loop, r being what ops->read returned
read_all_step(s, size, flags, script, total_read, r) ==
  IF r.err = "HANG" THEN r
  ELSE IF r.err # "SIO_SUCCESS" \/ r.n = 0
            \/ BitAnd(flags, SIO_DOALL_NONBLOCK) # 0 \/ total_read + r.n >= size
  THEN IoRet(IF total_read + r.n < size
             THEN (IF total_read + r.n > 0 THEN "SIO_ERROR_EOF" ELSE r.err)
             ELSE "SIO_SUCCESS", total_read + r.n, r.at, r.msg)
  ELSE stream_read_all(s, size, flags, script, r.at, total_read + r.n)

stream_read_all(s, size, flags, script, at, total_read) ==
  IF total_read >= size THEN IoRet("SIO_SUCCESS", total_read, at, 0)
  ELSE read_all_step(s, size, flags, script, total_read,
                     ops_read(s, size - total_read, BitClear(flags, SIO_DOALL),
                          script, at))

\* a read that takes a request for no bytes to the end-of-stream answer
stream_read_zero_is_eof(s, size, flags, script) ==
  IF check_stream_valid(s) # "SIO_SUCCESS"
  THEN IoRet(check_stream_valid(s), 0, 1, 0)
  ELSE IF size = 0 THEN IoRet("SIO_ERROR_EOF", 0, 1, 0)
  ELSE ops_read(s, size, flags, script, 1)

sio_stream_read(s, size, flags, script) ==
  IF check_stream_valid(s) # "SIO_SUCCESS"
  THEN IoRet(check_stream_valid(s), 0, 1, 0)
  ELSE IF size = 0 THEN IoRet("SIO_SUCCESS", 0, 1, 0)
  ELSE IF BitAnd(flags, SIO_DOALL) # 0
  THEN stream_read_all(s, size, flags, script, 1, 0)
  ELSE ops_read(s, size, flags, script, 1)

\* the DOALL loop of sio_stream_write, from total_written bytes on
RECURSIVE stream_write_all(_, _, _, _, _, _)
\* the rest of one round of the loop, r being what ops->write returned
write_all_step(s, size, flags, script, total_written, r) ==
  IF r.err = "HANG" THEN r
  ELSE IF r.err # "SIO_SUCCESS" \/ r.n = 0
            \/ BitAnd(flags, SIO_DOALL_NONBLOCK) # 0 \/ total_written + r.n >= size
  THEN IoRet(IF total_written + r.n < size
             THEN (IF total_written + r.n > 0 THEN "SIO_ERROR_IO" ELSE r.err)
             ELSE "SIO_SUCCESS", total_written + r.n, r.at, r.msg)
  ELSE stream_write_all(s, size, flags, script, r.at, total_written + r.n)

stream_write_all(s, size, flags, script, at, total_written) ==
  IF total_written >= size THEN IoRet("SIO_SUCCESS", total_written, at, 0)
  ELSE write_all_step(s, size, flags, script, total_written,
                     ops_write(s, size - total_written, BitClear(flags, SIO_DOALL),
                          script, at))

sio_stream_write(s, size, flags, script) ==
  IF check_stream_valid(s) # "SIO_SUCCESS"
  THEN IoRet(check_stream_valid(s), 0, 1, 0)
  ELSE IF size = 0 THEN IoRet("SIO_SUCCESS", 0, 1, 0)
  ELSE IF BitAnd(flags, SIO_DOALL) # 0
  THEN stream_write_all(s, size, flags, script, 1, 0)
  ELSE ops_write(s, size, flags, script, 1)

----------------------------------------------------------------------------
(* SpecClose: one stream of any kind, opened, closed and closed again *)

OpenFlags == {SIO_STREAM_READ, SIO_STREAM_WRITE, SIO_STREAM_RDWR}
FdTypes ==
  {"SIO_STREAM_FILE", "SIO_STREAM_SOCKET", "SIO_STREAM_PSEUDO_SOCKET",
   "SIO_STREAM_TIMER", "SIO_STREAM_SIGNAL"}
CloseErrnos == {"0", "EINTR", "EIO"}

\* req, size, n, offered, ending, intr, msg and calls describe a read or
\* write: calls is the number of system calls it made;
\* was_closed: a close of this stream had already succeeded before the call
NoSres ==
  [op |-> "none", err |-> "SIO_SUCCESS", was_closed |-> FALSE, req |-> {},
   size |-> 0, n |-> 0, offered |-> 0, ending |-> "none", intr |-> FALSE,
   msg |-> 0, calls |-> 0]

\* open: the kernel holds the stream's descriptor; closed_ok: a close of the
\* stream has returned success; late: close(fd) was called after that
NoIo == [open |-> FALSE, closed_ok |-> FALSE, late |-> FALSE]

\* the caller's own buffer, handed to sio_stream_open_buffer
CallerBuffer == sio_buffer_create(SIO_BUFFER_ALIGNMENT, TRUE).b

\* the caller's buffer as it may be when the stream is opened over it:
\* fresh, or holding data with the position inside it
CallerBuffers ==
  {CallerBuffer, [CallerBuffer EXCEPT !.size = 2, !.position = 1]}

OpenFd(type, opt) ==
  CASE type = "SIO_STREAM_FILE" -> sio_stream_open_file_from_handle(NativeFd, opt)
    [] type = "SIO_STREAM_SOCKET" -> sio_stream_open_socket_from_handle(NativeFd, opt)
    [] type = "SIO_STREAM_PSEUDO_SOCKET" -> open_pseudo_socket(NativeFd, opt)
    [] type = "SIO_STREAM_TIMER" -> sio_stream_open_timer_from_handle(NativeFd, opt)
    [] type = "SIO_STREAM_SIGNAL" -> sio_stream_open_signal_from_handle(NativeFd, opt)

Reusable == stream.type = "SIO_STREAM_UNKNOWN" \/ io.closed_ok

StreamOpenFd ==
  /\ Reusable
  /\ \E type \in FdTypes, opt \in OpenFlags :
       /\ stream' = OpenFd(type, opt)
       /\ sres' = [NoSres EXCEPT !.op = "open"]
       /\ io' = [NoIo EXCEPT !.open = TRUE]
       /\ buf' = ZeroBuffer
  /\ OnlyStream

StreamOpenBuffer ==
  /\ Reusable
  /\ \E given \in BOOLEAN, opt \in OpenFlags, mem_ok \in BOOLEAN,
        b \in CallerBuffers :
       LET r == sio_stream_open_buffer(b, given,
                                       SIO_BUFFER_ALIGNMENT, opt, mem_ok)
       IN  /\ stream' = r.s
           /\ buf' = IF r.err = "SIO_SUCCESS" THEN r.b ELSE ZeroBuffer
           /\ sres' = [NoSres EXCEPT !.op = "open", !.err = r.err]
           /\ io' = NoIo
  /\ OnlyStream

StreamOpenMemory ==
  /\ Reusable
  /\ \E opt \in OpenFlags :
       /\ stream' = sio_stream_open_memory(MaxSize, opt)
       /\ sres' = [NoSres EXCEPT !.op = "open"]
       /\ io' = NoIo
       /\ buf' = ZeroBuffer
  /\ OnlyStream

StreamClose ==
  /\ \E errno \in CloseErrnos, kept \in BOOLEAN, unmap_ok \in BOOLEAN :
       LET r == sio_stream_close(stream, buf, [open |-> io.open], errno, kept,
                                 unmap_ok)
       IN  /\ stream' = r.s
           /\ buf' = r.b
           /\ sres' = [NoSres EXCEPT !.op = "close", !.err = r.err,
                                     !.was_closed = io.closed_ok]
           /\ io' = [open      |-> r.k.open,
                     closed_ok |-> io.closed_ok \/ r.err = "SIO_SUCCESS",
                     late      |-> io.late \/ (r.native /\ io.closed_ok)]
  /\ OnlyStream

NextClose ==
  \/ StreamOpenFd
  \/ StreamOpenBuffer
  \/ StreamOpenMemory
  \/ StreamClose

----------------------------------------------------------------------------
(* C4: for every stream kind, once close has succeeded, any second and    *)
(* later call to close on the same stream returns the already-closed error *)
C4_SecondCloseAlreadyClosed ==
  (sres.op = "close" /\ sres.was_closed) => sres.err = "SIO_ERROR_FILE_CLOSED"

----------------------------------------------------------------------------
(* C5: a stream's native handle is released exactly once: the first        *)
(* successful close sets the stored handle to the closed sentinel (-1),    *)
(* the kernel no longer holds the descriptor, and no later close of the    *)
(* stream calls the native close again.                                    *)
C5_HandleReleasedOnce ==
  (stream.type \in FdTypes /\ io.closed_ok) =>
    /\ stream.fd = -1
    /\ ~io.open
    /\ ~io.late

\* a timer stream closed successfully and then closed a second time
C5_Witness ==
  /\ stream.type = "SIO_STREAM_TIMER"
  /\ sres.op = "close"
  /\ sres.was_closed
  /\ sres.err = "SIO_SUCCESS"
  /\ stream.fd = -1
  /\ ~io.late

\* C25: closing a buffer stream releases the buffer if and only if the
\* stream owns it: a close of a stream that owns its buffer destroys the
\* buffer and detaches it from the stream, so that no later close reaches
\* it again; a close of a stream over a borrowed buffer leaves the buffer
\* as it was, with its data, size, position and capacity, and usable.
C25_CloseReleasesIffOwned ==
  [][(sres'.op = "close" /\ stream.ops = "buffer_ops")
       => /\ sres'.err = "SIO_SUCCESS"
          /\ IF stream.owns_buffer /\ stream.buffer # "NULL"
             THEN buf' = ZeroBuffer /\ stream'.buffer = "NULL"
             ELSE buf' = buf
          /\ (~stream.owns_buffer /\ buf.data)
               => buf'.data /\ stream'.buffer = stream.buffer]_vars

\* a stream that owns its buffer closed a second time: the buffer was
\* destroyed by the first close
C25_Witness ==
  /\ stream.ops = "buffer_ops"
  /\ stream.owns_buffer
  /\ stream.buffer = "NULL"
  /\ buf = ZeroBuffer
  /\ sres.op = "close"
  /\ sres.was_closed
  /\ sres.err = "SIO_SUCCESS"

----------------------------------------------------------------------------
(* SpecIO: reads and writes on an open file, socket or datagram stream *)

\* the per-call flags a caller or-s together
ReqFlags == {{}, {"SIO_DOALL"}, {"SIO_DOALL", "SIO_DOALL_NONBLOCK"}}
\* the sizes a caller asks for
IoSizes == {0, MaxSize - 1, MaxSize}
IoTypes == {"SIO_STREAM_FILE", "SIO_STREAM_SOCKET", "SIO_STREAM_PSEUDO_SOCKET"}

IoResult(op, req, size, script, r) ==
  LET d == Drain(script, 1, size, 0, FALSE)
  IN  [op |-> op, err |-> r.err, was_closed |-> FALSE, req |-> req,
       size |-> size, n |-> r.n, offered |-> d.n, ending |-> d.ending,
       intr |-> d.intr, msg |-> r.msg, calls |-> r.at - 1]

StreamRead ==
  /\ stream.type \in IoTypes
  /\ \E size \in IoSizes, req \in ReqFlags, script \in Scripts :
       sres' = IoResult("read", req, size, script,
                        sio_stream_read(stream, size, FlagWord(req), script))
  /\ UNCHANGED <<stream, io, buf>>
  /\ OnlyStream

StreamWrite ==
  /\ stream.type \in IoTypes
  /\ \E size \in IoSizes, req \in ReqFlags, script \in Scripts :
       sres' = IoResult("write", req, size, script,
                        sio_stream_write(stream, size, FlagWord(req), script))
  /\ UNCHANGED <<stream, io, buf>>
  /\ OnlyStream

NextIO ==
  \/ StreamRead
  \/ StreamWrite

\* the caller asked for DOALL alone, or for DOALL with DOALL_NONBLOCK, and
\* no signal interrupted a system call
DoAll ==
  /\ "SIO_DOALL" \in sres.req /\ "SIO_DOALL_NONBLOCK" \notin sres.req
  /\ ~sres.intr
DoAllNonblock ==
  /\ {"SIO_DOALL", "SIO_DOALL_NONBLOCK"} \subseteq sres.req
  /\ ~sres.intr

----------------------------------------------------------------------------
(* C6: a read with DOALL and without DOALL_NONBLOCK keeps calling the      *)
(* backend until the requested size is filled, end-of-stream is reached or *)
(* an error occurs: it never returns success with fewer bytes than         *)
(* requested while the kernel has more data to give.                       *)
C6_DoAllReadFills ==
  (sres.op = "read" /\ DoAll /\ sres.err = "SIO_SUCCESS" /\ sres.n < sres.size)
    => sres.n >= sres.offered

----------------------------------------------------------------------------
(* C7: in a DOALL read, end-of-stream met after at least one byte gives    *)
(* success with the partial count; end-of-stream met before any byte gives *)
(* end-of-stream.                                                          *)
C7_DoAllReadEof ==
  (sres.op = "read" /\ DoAll /\ sres.ending = "zero") =>
    /\ sres.offered > 0 => (sres.err = "SIO_SUCCESS" /\ sres.n = sres.offered)
    /\ sres.offered = 0 => (sres.err = "SIO_ERROR_EOF" /\ sres.n = 0)

----------------------------------------------------------------------------
(* C8: in a DOALL write without DOALL_NONBLOCK whose backend stops taking   *)
(* bytes (a call returns 0) or fails, no byte written gives the I/O error, *)
(* and at least one byte written before that gives success with the short *)
(* count.                                                                  *)
C8_DoAllWriteProgress ==
  (sres.op = "write" /\ DoAll /\ sres.ending \in {"zero", "EIO"}) =>
    /\ sres.offered = 0 => (sres.err = "SIO_ERROR_IO" /\ sres.n = 0)
    /\ sres.offered > 0 =>
         (sres.err = "SIO_SUCCESS" /\ sres.n > 0 /\ sres.n <= sres.offered)

----------------------------------------------------------------------------
(* C9: in a write with DOALL and DOALL_NONBLOCK, when the kernel takes     *)
(* part of the data and then reports would-block, the call returns success *)
(* with the short count of the bytes written so far.                       *)
C9_NonblockShortWrite ==
  (sres.op = "write" /\ DoAllNonblock /\ sres.ending = "EAGAIN"
     /\ sres.offered > 0) =>
    /\ sres.err = "SIO_SUCCESS"
    /\ sres.n > 0
    /\ sres.n <= sres.offered
    /\ sres.n < sres.size

\* a socket took one byte of three and would block on the rest
C9_Witness ==
  /\ stream.type = "SIO_STREAM_SOCKET"
  /\ sres.op = "write"
  /\ DoAllNonblock
  /\ sres.size = MaxSize
  /\ sres.ending = "EAGAIN"
  /\ sres.offered = 1
  /\ sres.err = "SIO_SUCCESS"
  /\ sres.n = 1

----------------------------------------------------------------------------
(* SpecAny: reads and writes on an open stream of any kind *)

\* the stream and the buffer behind it after a successful open: a stream
\* over a descriptor, a buffer stream over a caller's buffer of len bytes or
\* over a buffer of its own, a raw memory stream over len bytes
Opened ==
  {[s |-> OpenFd(type, opt), b |-> ZeroBuffer] :
     type \in FdTypes, opt \in OpenFlags}
  \cup
  {[s |-> sio_stream_open_buffer(sio_buffer_from_memory(len).b, TRUE, 0,
                                 opt, TRUE).s,
    b |-> sio_buffer_from_memory(len).b] :
     len \in {1, MaxSize}, opt \in OpenFlags}
  \cup
  {[s |-> sio_stream_open_buffer(ZeroBuffer, FALSE, SIO_BUFFER_ALIGNMENT,
                                 opt, TRUE).s,
    b |-> sio_stream_open_buffer(ZeroBuffer, FALSE, SIO_BUFFER_ALIGNMENT,
                                 opt, TRUE).b] : opt \in OpenFlags}
  \cup
  {[s |-> sio_stream_open_memory(len, opt), b |-> ZeroBuffer] :
     len \in {1, MaxSize}, opt \in OpenFlags}

\* what stands behind a call: the results of the system calls, or the buffer
\* and the allocator
Envs ==
  IF stream.type \in IoTypes THEN Scripts
  ELSE {[b |-> buf, mem_ok |-> mem_ok] : mem_ok \in BOOLEAN}

\* read and write of timer and signal streams are reached with size 0 only
Sizes ==
  IF stream.type \in {"SIO_STREAM_TIMER", "SIO_STREAM_SIGNAL"} THEN {0}
  ELSE IoSizes

\* the cursor and the end of a buffer stream or raw memory stream
Cursor == IF stream.ops = "buffer_ops" THEN buf.position ELSE stream.position
End == IF stream.ops = "buffer_ops" THEN buf.size ELSE stream.size

\* the last call was a read that consumed the last byte of the stream
AfterLast ==
  /\ stream.type \in {"SIO_STREAM_BUFFER", "SIO_STREAM_RAWMEM"}
  /\ sres.op = "read" /\ sres.n > 0
  /\ Cursor = End

\* the call's mark in sres and what it leaves of the stream and the buffer
AnyResult(op, req, size, r) ==
  /\ sres' = [op |-> op, err |-> r.err, was_closed |-> FALSE, req |-> req,
              size |-> size, n |-> r.n, offered |-> 0,
              ending |-> IF AfterLast THEN "after_last" ELSE "none",
              intr |-> FALSE, msg |-> r.msg, calls |-> r.at - 1]
  /\ stream' = IF "s" \in DOMAIN r THEN r.s ELSE stream
  /\ buf' = IF "b" \in DOMAIN r /\ stream.ops = "buffer_ops" THEN r.b ELSE buf
  /\ UNCHANGED io
  /\ OnlyStream

AnyRead ==
  \E size \in Sizes, req \in {{}, {"SIO_DOALL"}}, env \in Envs :
    AnyResult("read", req, size,
              sio_stream_read(stream, size, FlagWord(req), env))

AnyWrite ==
  \E size \in Sizes, req \in {{}, {"SIO_DOALL"}}, env \in Envs :
    AnyResult("write", req, size,
              sio_stream_write(stream, size, FlagWord(req), env))

NextAny ==
  \/ AnyRead
  \/ AnyWrite

----------------------------------------------------------------------------
(* C16: a read or write of zero bytes on a stream of any backend, in any   *)
(* state between open and close (also at end-of-stream), returns success   *)
(* with count 0, makes no system call and changes nothing of the stream or *)
(* of the buffer behind it.                                                *)
C16_ZeroLength ==
  [][(sres'.op \in {"read", "write"} /\ sres'.size = 0)
       => /\ sres'.err = "SIO_SUCCESS"
          /\ sres'.n = 0 /\ sres'.calls = 0
          /\ stream' = stream /\ buf' = buf /\ io' = io]_vars

\* a read of no bytes right after the last byte of a raw memory stream
C16_Witness ==
  /\ stream.type = "SIO_STREAM_RAWMEM"
  /\ sres.op = "read" /\ sres.size = 0 /\ sres.ending = "after_last"
  /\ sres.err = "SIO_SUCCESS" /\ sres.n = 0
  /\ stream.position = stream.size

----------------------------------------------------------------------------
(* C17, as stated: after a read has consumed the last byte of a buffer     *)
(* stream or raw memory stream, the next read, zero-length requests        *)
(* included, returns end-of-stream with count 0 and leaves the cursor      *)
(* equal to size.                                                          *)
C17_EofAfterLastByte ==
  (sres.op = "read" /\ sres.ending = "after_last")
    => /\ sres.err = "SIO_ERROR_EOF"
       /\ sres.n = 0
       /\ Cursor = End

(* C17, amended: after a read has consumed the last byte of a buffer       *)
(* stream or raw memory stream, the next read of one or more bytes returns *)
(* end-of-stream with count 0 and a read of zero bytes returns success     *)
(* with count 0; both leave the cursor equal to size.                      *)
C17_EofAfterLastByteNonZero ==
  (sres.op = "read" /\ sres.ending = "after_last")
    => /\ sres.err = IF sres.size > 0 THEN "SIO_ERROR_EOF" ELSE "SIO_SUCCESS"
       /\ sres.n = 0
       /\ Cursor = End

C17_Witness ==
  /\ stream.type = "SIO_STREAM_BUFFER"
  /\ sres.op = "read" /\ sres.ending = "after_last" /\ sres.size > 0
  /\ sres.err = "SIO_ERROR_EOF" /\ sres.n = 0
  /\ buf.size > 0 /\ buf.position = buf.size

----------------------------------------------------------------------------
(* The other operations of a stream: flush, seek, tell, truncate, get_size, *)
(* src/src/stream.c over the backends' tables                               *)

\* the slots of a backend's table that hold a function
Slots(ops) ==
  CASE ops = "file_ops" ->
         {"close", "read", "write", "flush", "get_option", "set_option",
          "seek", "tell", "truncate", "get_size"}
    [] ops \in {"socket_ops", "pseudo_socket_ops"} ->
         {"close", "read", "write", "readv", "writev", "get_option",
          "set_option"}
    [] ops \in {"timer_ops", "signal_ops"} ->
         {"close", "read", "write", "get_option", "set_option"}
    [] ops = "buffer_ops" ->
         {"close", "read", "write", "get_option", "set_option", "seek",
          "tell", "truncate", "get_size"}
    [] ops = "rawmem_ops" ->
         {"close", "read", "write", "get_option", "set_option", "seek",
          "tell", "get_size"}
    [] OTHER -> {}

\* what such a call returns: the error, the value stored through its
\* out-parameter, the number of system calls it made, and the stream and the
\* buffer as it leaves them
ExtRet(err, out, calls, s, b) ==
  [err |-> err, out |-> out, calls |-> calls, s |-> s, b |-> b]

\* one lseek, ftruncate, fstat or fsync on the stream's descriptor; sys is
\* what the kernel answers
file_sys(s, b, sys) ==
  LET o == IF s.fd < 0 THEN SysErr("EBADF") ELSE sys
  IN  IF o.result < 0 THEN ExtRet(sio_get_last_error(o.errno), 0, 1, s, b)
      ELSE ExtRet("SIO_SUCCESS", o.result, 1, s, b)

file_seek(s, b, offset, origin, sys) ==
  IF origin \notin {"SIO_SEEK_SET", "SIO_SEEK_CUR", "SIO_SEEK_END"}
  THEN ExtRet("SIO_ERROR_PARAM", 0, 0, s, b)
  ELSE file_sys(s, b, sys)

file_tell(s, b, sys) == file_sys(s, b, sys)

file_truncate(s, b, sys) == [file_sys(s, b, sys) EXCEPT !.out = 0]

file_get_size(s, b, sys) == file_sys(s, b, sys)

file_flush(s, b, sys) == [file_sys(s, b, sys) EXCEPT !.out = 0]

buffer_seek(s, b, offset, origin) ==
  IF s.buffer = "NULL" THEN ExtRet("SIO_ERROR_IO", 0, 0, s, b)
  ELSE IF \/ (origin = "SIO_SEEK_SET" /\ offset < 0)
          \/ (origin = "SIO_SEEK_END" /\ offset > 0)
          \/ origin \notin {"SIO_SEEK_SET", "SIO_SEEK_CUR", "SIO_SEEK_END"}
  THEN ExtRet("SIO_ERROR_PARAM", 0, 0, s, b)
  ELSE LET r == CASE origin = "SIO_SEEK_SET" -> sio_buffer_seek(b, offset)
                  [] origin = "SIO_SEEK_CUR" -> sio_buffer_seek_relative(b, offset)
                  [] origin = "SIO_SEEK_END" ->
                       sio_buffer_seek(b, (b.size + offset) % SizeMod)
       IN  ExtRet(r.err, IF r.err = "SIO_SUCCESS" THEN r.b.position ELSE 0,
                  0, s, r.b)

buffer_tell(s, b) ==
  IF s.buffer = "NULL" THEN ExtRet("SIO_ERROR_IO", 0, 0, s, b)
  ELSE ExtRet("SIO_SUCCESS", b.position, 0, s, b)

buffer_get_size(s, b) ==
  IF s.buffer = "NULL" THEN ExtRet("SIO_ERROR_IO", 0, 0, s, b)
  ELSE ExtRet("SIO_SUCCESS", b.size, 0, s, b)

\* the buffer stream's truncate on the buffer the stream points to
buffer_ops_truncate(s, b, size, mem_ok) ==
  IF BitAnd(s.flags, SIO_STREAM_WRITE) = 0
  THEN ExtRet("SIO_ERROR_PERM", 0, 0, s, b)
  ELSE IF s.buffer = "NULL" THEN ExtRet("SIO_ERROR_IO", 0, 0, s, b)
  ELSE LET r == buffer_truncate(s.flags, b, size, mem_ok)
       IN  ExtRet(r.err, 0, 0, s, r.b)

rawmem_seek(s, b, offset, origin) ==
  IF origin \notin {"SIO_SEEK_SET", "SIO_SEEK_CUR", "SIO_SEEK_END"}
  THEN ExtRet("SIO_ERROR_PARAM", 0, 0, s, b)
  ELSE LET new_pos == CASE origin = "SIO_SEEK_SET" -> offset
                        [] origin = "SIO_SEEK_CUR" -> s.position + offset
                        [] origin = "SIO_SEEK_END" -> s.size + offset
       IN  IF new_pos < 0 \/ new_pos > s.size
           THEN ExtRet("SIO_ERROR_PARAM", 0, 0, s, b)
           ELSE ExtRet("SIO_SUCCESS", new_pos, 0,
                       [s EXCEPT !.position = new_pos], b)

rawmem_tell(s, b) == ExtRet("SIO_SUCCESS", s.position, 0, s, b)

rawmem_get_size(s, b) == ExtRet("SIO_SUCCESS", s.size, 0, s, b)

\* the check every public operation starts with: the stream has a table and
\* the table has the slot
check_stream_operation(s, slot) ==
  IF check_stream_valid(s) # "SIO_SUCCESS" THEN check_stream_valid(s)
  ELSE IF slot \notin Slots(s.ops) THEN "SIO_ERROR_UNSUPPORTED"
  ELSE "SIO_SUCCESS"

sio_stream_flush(s, b, sys) ==
  IF check_stream_operation(s, "flush") # "SIO_SUCCESS"
  THEN ExtRet(check_stream_operation(s, "flush"), 0, 0, s, b)
  ELSE file_flush(s, b, sys)

\* a seek that calls the backend without looking at the slot, and takes
\* every stream without a cursor of its own for a file
seek_without_slot_check(s, b, offset, origin, sys) ==
  IF check_stream_valid(s) # "SIO_SUCCESS"
  THEN ExtRet(check_stream_valid(s), 0, 0, s, b)
  ELSE CASE s.ops = "buffer_ops" -> buffer_seek(s, b, offset, origin)
         [] s.ops = "rawmem_ops" -> rawmem_seek(s, b, offset, origin)
         [] OTHER -> file_seek(s, b, offset, origin, sys)

sio_stream_seek(s, b, offset, origin, sys) ==
  IF check_stream_operation(s, "seek") # "SIO_SUCCESS"
  THEN ExtRet(check_stream_operation(s, "seek"), 0, 0, s, b)
  ELSE CASE s.ops = "file_ops"   -> file_seek(s, b, offset, origin, sys)
         [] s.ops = "buffer_ops" -> buffer_seek(s, b, offset, origin)
         [] s.ops = "rawmem_ops" -> rawmem_seek(s, b, offset, origin)

sio_stream_tell(s, b, sys) ==
  IF check_stream_operation(s, "tell") # "SIO_SUCCESS"
  THEN ExtRet(check_stream_operation(s, "tell"), 0, 0, s, b)
  ELSE CASE s.ops = "file_ops"   -> file_tell(s, b, sys)
         [] s.ops = "buffer_ops" -> buffer_tell(s, b)
         [] s.ops = "rawmem_ops" -> rawmem_tell(s, b)

sio_stream_truncate(s, b, size, sys, mem_ok) ==
  IF check_stream_operation(s, "truncate") # "SIO_SUCCESS"
  THEN ExtRet(check_stream_operation(s, "truncate"), 0, 0, s, b)
  ELSE CASE s.ops = "file_ops"   -> file_truncate(s, b, sys)
         [] s.ops = "buffer_ops" -> buffer_ops_truncate(s, b, size, mem_ok)

sio_stream_get_size(s, b, sys) ==
  IF check_stream_operation(s, "get_size") # "SIO_SUCCESS"
  THEN ExtRet(check_stream_operation(s, "get_size"), 0, 0, s, b)
  ELSE CASE s.ops = "file_ops"   -> file_get_size(s, b, sys)
         [] s.ops = "buffer_ops" -> buffer_get_size(s, b)
         [] s.ops = "rawmem_ops" -> rawmem_get_size(s, b)

----------------------------------------------------------------------------
(* sio_stream_readv and sio_stream_writev without a vectored slot,          *)
(* src/src/stream.c                                                         *)

\* the results of the system calls after the first k of a script
Shift(script, k) == [i \in 1..Len(script) |-> SysAt(script, i + k)]

\* where the next byte of a memory stream is read or written
CursorOf(s, b) ==
  CASE s.ops = "buffer_ops" -> b.position
    [] s.ops = "rawmem_ops" -> s.position
    [] OTHER -> 0

\* a vectored call returns the error, the total count, the number of system
\* calls, the stream and the buffer as it leaves them, and for each span it
\* touched the cursor it started at and the bytes it moved
VecRet(err, n, calls, s, b, xfers) ==
  [err |-> err, n |-> n, calls |-> calls, s |-> s, b |-> b, xfers |-> xfers]

\* the system calls or the buffer a span's call finds, after acc.calls
\* system calls and on the stream and buffer as they are then
SpanEnv(env, acc) ==
  IF acc.s.type \in {"SIO_STREAM_FILE", "SIO_STREAM_SOCKET",
                     "SIO_STREAM_PSEUDO_SOCKET"}
  THEN Shift(env, acc.calls) ELSE [env EXCEPT !.b = acc.b]

\* the vectored call's account after a span's call returned r
SpanRet(acc, r) ==
  [err   |-> r.err,
   n     |-> r.n,
   calls |-> acc.calls + r.at - 1,
   s     |-> IF "s" \in DOMAIN r THEN r.s ELSE acc.s,
   b     |-> IF "b" \in DOMAIN r /\ acc.s.ops = "buffer_ops" THEN r.b
             ELSE acc.b,
   xfers |-> Append(acc.xfers, [from |-> CursorOf(acc.s, acc.b),
                                n    |-> r.n])]

\* one sio_stream_read or sio_stream_write in the middle of a vectored call
SpanCall(op, env, len, flags, acc) ==
  SpanRet(acc, IF op = "read"
               THEN sio_stream_read(acc.s, len, flags, SpanEnv(env, acc))
               ELSE sio_stream_write(acc.s, len, flags, SpanEnv(env, acc)))

\* the loop of sio_stream_readv from span i on
RECURSIVE readv_from(_, _, _, _, _)
\* the rest of one round, r being the account after the span's read
readv_step(env, iov, flags, i, acc, r) ==
  IF r.err \notin {"SIO_SUCCESS", "SIO_ERROR_EOF"}
  THEN [r EXCEPT !.n = acc.n]
  ELSE IF r.n < iov[i]
  THEN [r EXCEPT !.err = "SIO_SUCCESS", !.n = acc.n + r.n]
  ELSE readv_from(env, iov, flags, i + 1, [r EXCEPT !.n = acc.n + r.n])

readv_from(env, iov, flags, i, acc) ==
  IF i > Len(iov) THEN [acc EXCEPT !.err = "SIO_SUCCESS"]
  ELSE readv_step(env, iov, flags, i, acc,
                  SpanCall("read", env, iov[i], flags, acc))

\* the callers here are streams whose table has no readv slot; socket_readv
\* is the only function a table holds there
sio_stream_readv(s, b, iov, flags, env) ==
  IF check_stream_valid(s) # "SIO_SUCCESS"
  THEN VecRet(check_stream_valid(s), 0, 0, s, b, <<>>)
  ELSE readv_from(env, iov, flags, 1, VecRet("SIO_SUCCESS", 0, 0, s, b, <<>>))

\* the loop of sio_stream_writev from span i on
RECURSIVE writev_from(_, _, _, _, _)
\* the rest of one round, r being the account after the span's write
writev_step(env, iov, flags, i, acc, r) ==
  IF r.err # "SIO_SUCCESS" THEN [r EXCEPT !.n = acc.n]
  ELSE IF r.n < iov[i] THEN [r EXCEPT !.n = acc.n + r.n]
  ELSE writev_from(env, iov, flags, i + 1, [r EXCEPT !.n = acc.n + r.n])

writev_from(env, iov, flags, i, acc) ==
  IF i > Len(iov) THEN [acc EXCEPT !.err = "SIO_SUCCESS"]
  ELSE writev_step(env, iov, flags, i, acc,
                   SpanCall("write", env, iov[i], flags, acc))

sio_stream_writev(s, b, iov, flags, env) ==
  IF check_stream_valid(s) # "SIO_SUCCESS"
  THEN VecRet(check_stream_valid(s), 0, 0, s, b, <<>>)
  ELSE writev_from(env, iov, flags, 1, VecRet("SIO_SUCCESS", 0, 0, s, b, <<>>))

\* what a caller gets who issues read or write on each span in order and
\* stops at the first short transfer or error: the result of the last call,
\* the total of the counts, and the stream, buffer and transfers
RECURSIVE Serial(_, _, _, _, _, _)
\* the caller's next move, r being the account after the span's call
SerialStep(op, env, iov, flags, i, acc, r) ==
  IF r.err # "SIO_SUCCESS" \/ r.n < iov[i] THEN [r EXCEPT !.n = acc.n + r.n]
  ELSE Serial(op, env, iov, flags, i + 1, [r EXCEPT !.n = acc.n + r.n])

Serial(op, env, iov, flags, i, acc) ==
  IF i > Len(iov) THEN acc
  ELSE SerialStep(op, env, iov, flags, i, acc,
                  SpanCall(op, env, iov[i], flags, acc))

----------------------------------------------------------------------------
(* SpecOps: the other operations and the vectored calls on an open stream *)

\* the most spans of a vectored call
MaxSpans == 2

\* the spans are empty or one byte short of MaxSize; read and write of
\* timer and signal streams are reached with size 0 only
SpanLens ==
  IF stream.type \in {"SIO_STREAM_TIMER", "SIO_STREAM_SIGNAL"} THEN {0}
  ELSE {0, MaxSize - 1}
Iovs == UNION {[1..k -> SpanLens] : k \in 0..MaxSpans}

Origins == {"SIO_SEEK_SET", "SIO_SEEK_CUR", "SIO_SEEK_END", "other"}
Offsets == {-1, 0, 1, MaxSize}
TruncSizes == {0, 1, MaxSize, SIO_BUFFER_ALIGNMENT + 1}
\* what lseek, ftruncate, fstat or fsync answer on a file's descriptor; the
\* other backends make no system call
ExtOutcomes ==
  IF stream.type = "SIO_STREAM_FILE" THEN {SysOk(0), SysOk(1), SysErr("EIO")}
  ELSE {SysOk(0)}

\* what stands behind a vectored call: what the kernel answers to the first
\* system call and to every one after it (nothing, one byte, all that was
\* asked for, or an error), or the buffer and the allocator
VecEnvs ==
  IF stream.type = "SIO_STREAM_FILE"
  THEN {<<x, y, y>> : x \in Outcomes \ {SysErr("EINTR"), SysErr("EAGAIN")},
                      y \in Outcomes \ {SysErr("EINTR"), SysErr("EAGAIN")}}
  ELSE {[b |-> buf, mem_ok |-> mem_ok] : mem_ok \in BOOLEAN}

OpsResult(op, arg, r) ==
  /\ sres' = [NoSres EXCEPT !.op = op, !.err = r.err, !.size = arg,
                            !.n = r.out, !.calls = r.calls]
  /\ stream' = r.s
  /\ buf' = r.b
  /\ UNCHANGED io
  /\ OnlyStream

\* iov are the spans' lengths, serial what issuing the calls one by one on
\* the same stream would have given
VecResult(op, iov, r, serial) ==
  /\ sres' = [op |-> op, err |-> r.err, was_closed |-> FALSE, req |-> {},
              size |-> 0, n |-> r.n, offered |-> 0, ending |-> "none",
              intr |-> FALSE, msg |-> 0, calls |-> r.calls, iov |-> iov,
              xfers |-> r.xfers, serial |-> serial]
  /\ stream' = r.s
  /\ buf' = r.b
  /\ UNCHANGED io
  /\ OnlyStream

OpsFlush ==
  \E sys \in ExtOutcomes :
    OpsResult("flush", 0, sio_stream_flush(stream, buf, sys))

OpsSeek ==
  \E offset \in Offsets, origin \in Origins, sys \in ExtOutcomes :
    OpsResult("seek", offset, sio_stream_seek(stream, buf, offset, origin, sys))

OpsTell ==
  \E sys \in ExtOutcomes :
    OpsResult("tell", 0, sio_stream_tell(stream, buf, sys))

OpsTruncate ==
  \E size \in TruncSizes, sys \in ExtOutcomes, mem_ok \in BOOLEAN :
    OpsResult("truncate", size,
              sio_stream_truncate(stream, buf, size, sys, mem_ok))

OpsGetSize ==
  \E sys \in ExtOutcomes :
    OpsResult("get_size", 0, sio_stream_get_size(stream, buf, sys))

OpsReadv ==
  /\ "readv" \notin Slots(stream.ops)
  /\ \E iov \in Iovs, env \in VecEnvs :
       VecResult("readv", iov, sio_stream_readv(stream, buf, iov, 0, env),
                 Serial("read", env, iov, 0, 1,
                        VecRet("SIO_SUCCESS", 0, 0, stream, buf, <<>>)))

OpsWritev ==
  /\ "writev" \notin Slots(stream.ops)
  /\ \E iov \in Iovs, env \in VecEnvs :
       VecResult("writev", iov, sio_stream_writev(stream, buf, iov, 0, env),
                 Serial("write", env, iov, 0, 1,
                        VecRet("SIO_SUCCESS", 0, 0, stream, buf, <<>>)))

NextOps ==
  \/ OpsFlush
  \/ OpsSeek
  \/ OpsTell
  \/ OpsTruncate
  \/ OpsGetSize
  \/ OpsReadv
  \/ OpsWritev

----------------------------------------------------------------------------
(* C22, as stated: every public stream operation invoked on a valid stream *)
(* whose operations table has no slot for it returns unsupported and       *)
(* changes no state, the vectored calls included.                          *)
C22_NoSlotUnsupported ==
  [][(sres'.op \notin {"none", "open"} /\ sres'.op \notin Slots(stream.ops))
       => /\ sres'.err = "SIO_ERROR_UNSUPPORTED"
          /\ sres'.calls = 0
          /\ stream' = stream /\ buf' = buf /\ io' = io]_vars

\* seek, tell, truncate and get_size on a stream without a cursor, and
\* truncate on a raw memory stream
NamedNoSlot(type, op) ==
  \/ /\ type \in {"SIO_STREAM_SOCKET", "SIO_STREAM_PSEUDO_SOCKET",
                  "SIO_STREAM_TIMER", "SIO_STREAM_SIGNAL"}
     /\ op \in {"seek", "tell", "truncate", "get_size"}
  \/ type = "SIO_STREAM_RAWMEM" /\ op = "truncate"

(* C22, amended: every public stream operation other than readv and writev *)
(* invoked on a valid stream whose operations table has no slot for it     *)
(* returns unsupported, makes no system call and changes no state; in      *)
(* particular seek, tell, truncate and get_size on socket, timer and       *)
(* signal streams, and truncate on a raw memory stream.  readv and writev  *)
(* without a slot are carried out by reads and writes.                     *)
C22_NoSlotUnsupportedButVectored ==
  [][/\ (/\ sres'.op \in {"flush", "seek", "tell", "truncate", "get_size"}
         /\ \/ sres'.op \notin Slots(stream.ops)
            \/ NamedNoSlot(stream.type, sres'.op))
       => /\ sres'.err = "SIO_ERROR_UNSUPPORTED"
          /\ sres'.calls = 0
          /\ stream' = stream /\ buf' = buf /\ io' = io
     /\ sres'.op \in {"readv", "writev"}
       => sres'.err # "SIO_ERROR_UNSUPPORTED"]_vars

\* a truncate of a writable raw memory stream to one byte
C22_Witness ==
  /\ stream.type = "SIO_STREAM_RAWMEM"
  /\ BitAnd(stream.flags, SIO_STREAM_WRITE) # 0
  /\ sres.op = "truncate" /\ sres.size = 1
  /\ sres.err = "SIO_ERROR_UNSUPPORTED"
  /\ stream.size = MaxSize

----------------------------------------------------------------------------
(* C23: when the backend has no vectored slot, readv and writev over spans *)
(* s1..sk are equivalent to issuing read or write on each span in order    *)
(* and stopping at the first short transfer or error: the same bytes in    *)
(* the same order, the same total count and the same result kind, also for *)
(* end-of-stream and for errors of the underlying call.                    *)
C23_VectoredIsSerial ==
  sres.op \in {"readv", "writev"}
    => /\ sres.err = sres.serial.err
       /\ sres.n = sres.serial.n
       /\ sres.xfers = sres.serial.xfers
       /\ stream = sres.serial.s
       /\ buf = sres.serial.b

----------------------------------------------------------------------------
(* The storage of a socket stream: union sio_stream_storage, and
   sio_stream_open_socket of src/src/stream/sock.c (POSIX branch) *)

\* sa_family_t and in_port_t are scaled to HalfBits bits each, int to twice
\* that: an int covers the family and the port of a sockaddr_in
HalfBits == 4
HalfMod == 2 ^ HalfBits
WordMod == HalfMod * HalfMod

AF_INET == 2
AF_INET6 == 10
SizeofSockaddrIn == 16
SizeofSockaddrIn6 == 28

\* the bytes of the union as its members see them: w0 is the first
\* int-sized word, host the bytes of the address after it, len addr.len.
\* data.socket.fd and the family and port of data.pseudo_socket.addr are
\* both at offset 0 (little-endian layout)
ZeroStorage == [w0 |-> 0, host |-> 0, len |-> 0]

\* memcpy(&stream->data.pseudo_socket.addr, addr, sizeof(sio_addr_t))
store_addr(data, addr) ==
  [w0 |-> addr.family + HalfMod * addr.port, host |-> addr.host,
   len |-> addr.len]

\* stream->data.socket.fd = sock
store_fd(data, sock) == [data EXCEPT !.w0 = sock % WordMod]

\* stream->data.socket.fd
socket_fd(data) ==
  IF data.w0 >= WordMod \div 2 THEN data.w0 - WordMod ELSE data.w0

\* stream->data.pseudo_socket.addr
pseudo_socket_addr(data) ==
  [family |-> data.w0 % HalfMod, port |-> data.w0 \div HalfMod,
   host |-> data.host, len |-> data.len]

\* a socket stream after memset(stream, 0, sizeof(sio_stream_t))
ZeroSock ==
  [type |-> "SIO_STREAM_UNKNOWN", flags |-> 0, ops |-> "NULL",
   data |-> ZeroStorage]

\* the stream as the read, write and close functions of the backend see
\* it: they use data.socket.fd for both kinds
FdView(s) ==
  [ZeroStream EXCEPT !.type = s.type, !.flags = s.flags, !.ops = s.ops,
                     !.fd = socket_fd(s.data)]

\* tcp and server: opt & SIO_STREAM_TCP, opt & SIO_STREAM_SERVER; sock is
\* what create_socket returns, setup_ok whether setsockopt, bind, listen
\* and connect succeed; open: the kernel holds the descriptor afterwards
sio_stream_open_socket(addr, opt, tcp, server, sock, errno, setup_ok) ==
  LET s0 == [ZeroSock EXCEPT !.flags = opt]
  IN  IF ~tcp /\ ~server
      THEN LET s1 == [s0 EXCEPT !.type = "SIO_STREAM_PSEUDO_SOCKET",
                                !.ops = "pseudo_socket_ops",
                                !.data = store_addr(@, addr)]
           IN  IF sock < 0
               THEN [s |-> s1, err |-> sio_get_last_error(errno), open |-> FALSE]
               ELSE [s |-> [s1 EXCEPT !.data = store_fd(@, sock)],
                     err |-> "SIO_SUCCESS", open |-> TRUE]
      ELSE LET s1 == [s0 EXCEPT !.type = IF tcp THEN "SIO_STREAM_SOCKET"
                                         ELSE "SIO_STREAM_PSEUDO_SOCKET",
                                !.ops = "socket_ops"]
           IN  IF sock < 0 \/ ~setup_ok
               THEN [s |-> s1, err |-> sio_get_last_error(errno), open |-> FALSE]
               ELSE [s |-> [s1 EXCEPT !.data = store_fd(@, sock)],
                     err |-> "SIO_SUCCESS", open |-> TRUE]

\* the destination socket_write hands to sendto: the stored address, its
\* length taken from the family when addr.len is 0
sendto_dest(s) ==
  LET a == pseudo_socket_addr(s.data)
  IN  [a EXCEPT !.len = IF a.len # 0 THEN a.len
                        ELSE IF a.family = AF_INET THEN SizeofSockaddrIn
                        ELSE IF a.family = AF_INET6 THEN SizeofSockaddrIn6
                        ELSE 0]

\* whether a write of size bytes reaches sendto
calls_sendto(s, size) ==
  /\ check_stream_valid(s) = "SIO_SUCCESS"
  /\ size > 0
  /\ socket_fd(s.data) >= 0
  /\ s.type = "SIO_STREAM_PSEUDO_SOCKET"

----------------------------------------------------------------------------
(* SpecSock: one socket stream, opened on an address, written and closed *)

MaxPort == 2
MaxHost == 1
\* the descriptors socket() hands out, and -1 for its failure
SockFds == {-1, 3, 4}

SockAddrs ==
  {[family |-> f, port |-> p, host |-> h, len |-> l] :
     f \in {AF_INET, AF_INET6}, p \in 1..MaxPort, h \in 0..MaxHost,
     l \in {0, SizeofSockaddrIn}}

NoAddr == [family |-> 0, port |-> 0, host |-> 0, len |-> 0]

\* family, port and host of an address
Peer(a) == <<a.family, a.port, a.host>>

\* peer: the address the open in force was given; sent: the call reached
\* sendto, with dest as its destination
SockResult(op, err, n, sent, dest) ==
  [op |-> op, err |-> err, n |-> n, sent |-> sent, dest |-> dest]

\* r: what sio_stream_write returned for size bytes on the stream s
WriteResult(s, size, r) ==
  SockResult("write", r.err, r.n, calls_sendto(s, size),
             IF calls_sendto(s, size) THEN sendto_dest(s) ELSE NoAddr)

SockOpen ==
  /\ ~io.open
  /\ \E addr \in SockAddrs, tcp \in BOOLEAN, server \in BOOLEAN,
        sock \in SockFds, setup_ok \in BOOLEAN :
       LET r == sio_stream_open_socket(addr, SIO_STREAM_RDWR, tcp, server,
                                       sock, "EIO", setup_ok)
       IN  /\ stream' = r.s
           /\ sres' = SockResult("open", r.err, 0, FALSE, NoAddr)
           /\ io' = [open |-> r.open, closed_ok |-> FALSE, peer |-> addr]
  /\ UNCHANGED buf
  /\ OnlyStream

SockWrite ==
  /\ stream.ops # "NULL"
  /\ \E size \in IoSizes, x \in Outcomes, y \in Outcomes \ {SysErr("EINTR")} :
       sres' = WriteResult(stream, size,
                           sio_stream_write(FdView(stream), size, 0, <<x, y, y>>))
  /\ UNCHANGED <<stream, io, buf>>
  /\ OnlyStream

SockClose ==
  /\ stream.ops # "NULL"
  /\ \E errno \in CloseErrnos, kept \in BOOLEAN :
       LET r == sio_stream_close(FdView(stream), buf, [open |-> io.open],
                                 errno, kept, TRUE)
       IN  /\ stream' = [stream EXCEPT !.data = store_fd(@, r.s.fd)]
           /\ sres' = SockResult("close", r.err, 0, FALSE, NoAddr)
           /\ io' = [io EXCEPT !.open = r.k.open,
                               !.closed_ok = @ \/ r.err = "SIO_SUCCESS"]
  /\ UNCHANGED buf
  /\ OnlyStream

NextSock ==
  \/ SockOpen
  \/ SockWrite
  \/ SockClose

\* C24: a datagram client stream keeps the peer address given to open:
\* from the successful open until the close, the address in the stream's
\* storage is the address passed in, and every write that sends hands
\* exactly that address to sendto.
C24_PeerAddressRetained ==
  (/\ stream.ops = "pseudo_socket_ops"
   /\ io.open
   /\ ~io.closed_ok) =>
    /\ Peer(pseudo_socket_addr(stream.data)) = Peer(io.peer)
    /\ (sres.op = "write" /\ sres.sent) => Peer(sres.dest) = Peer(io.peer)

----------------------------------------------------------------------------
(* SpecTrunc: a buffer stream over a buffer with its bytes, written, *)
(* repositioned and truncated                                          *)

\* memset(buf->data + from, 0, to - from)
zero_bytes(bytes, from, to) ==
  [i \in 1..Len(bytes) |-> IF i > from /\ i <= to THEN 0 ELSE bytes[i]]

\* the block behind the buffer after buffer_truncate returned r for size
\* on the buffer b: sio_buffer_shrink_to_fit and sio_buffer_ensure_capacity
\* reallocate through sio_buffer_resize, and growing zero-fills the bytes
\* from the old size on
truncate_bytes(b, bytes, size, r) ==
  IF r.err # "SIO_SUCCESS" THEN bytes
  ELSE IF size < b.size
  THEN IF size < b.capacity \div 2 /\ size # b.capacity
       THEN resize_bytes(bytes, size, r.b.capacity)
       ELSE bytes
  ELSE IF size > b.size
  THEN zero_bytes(IF b.capacity < size
                  THEN resize_bytes(bytes, b.size, r.b.capacity)
                  ELSE bytes, b.size, size)
  ELSE bytes

\* the sizes a caller truncates to
TruncLens ==
  {0, 1, MaxData, SIO_BUFFER_ALIGNMENT + 1, SIO_BUFFER_ALIGNMENT + 2,
   MaxAlloc + 1}

\* r: what sio_stream_truncate returned for size
TruncApply(size, r) ==
  /\ buf' = r.b
  /\ res' = Result("truncate", r.err, size)
  /\ mem' = [mem EXCEPT !.bytes = truncate_bytes(buf, mem.bytes, size, r)]
  /\ rt' = NoRt
  /\ UNCHANGED hung
  /\ OnlyMem

MemTruncate ==
  /\ Alive
  /\ \E size \in TruncLens, mem_ok \in BOOLEAN :
       TruncApply(size, sio_stream_truncate(stream, buf, size, SysOk(0), mem_ok))

\* the writes before and between the truncates
MaxTruncWrites == 1

TruncWrite ==
  /\ mem.writes < MaxTruncWrites
  /\ MemWrite

NextTrunc ==
  \/ TruncWrite
  \/ MemSeek
  \/ MemTruncate

\* C26: after a successful truncate(n) on a writable buffer stream the size
\* is n, the position is the smaller of the old position and n, the bytes
\* below the smaller of the old size and n are unchanged, and when n is
\* greater than the old size every byte from the old size up to n is zero.
C26_TruncateEffect ==
  [][(res'.op = "truncate" /\ res'.err = "SIO_SUCCESS")
       => /\ BitAnd(stream.flags, SIO_STREAM_WRITE) # 0
          /\ buf'.size = res'.n
          /\ buf'.position = Min(buf.position, res'.n)
          /\ \A i \in 1..Min(buf.size, res'.n) : mem'.bytes[i] = mem.bytes[i]
          /\ \A i \in (buf.size + 1)..res'.n : mem'.bytes[i] = 0]_vars

\* a writable buffer stream grown by truncate to one byte more than the
\* long write that filled it: the bytes written are there, the new last
\* byte is zero and the position is where the write left it
C26_Witness ==
  /\ res.op = "truncate" /\ res.err = "SIO_SUCCESS"
  /\ res.n = Len(Long) + 1
  /\ buf.size = Len(Long) + 1 /\ buf.position = Len(Long)
  /\ mem.writes = 1
  /\ \A i \in 1..Len(Long) : mem.bytes[i] = Long[i]
  /\ mem.bytes[Len(Long) + 1] = 0

\* C36: a buffer-stream operation that returns an error leaves the size, the
\* position, the capacity and the contents of the buffer as they were before
\* the call; in particular a truncate that fails has changed neither size
\* nor position.
C36_ErrorLeavesBuffer ==
  [][(/\ res'.op \in {"truncate", "write", "seek"}
      /\ res' # res
      /\ res'.err \notin {"SIO_SUCCESS", "HANG", "SIGSEGV"})
       => /\ buf'.size = buf.size
          /\ buf'.position = buf.position
          /\ buf'.capacity = buf.capacity
          /\ \A i \in 1..buf.size : mem'.bytes[i] = mem.bytes[i]]_vars

----------------------------------------------------------------------------
(* SpecRaw: a raw memory stream over a span of the caller's memory, read, *)
(* written and repositioned                                               *)

\* the caller's memory is the span followed by GuardLen bytes that belong
\* to something else; GuardByte is what those bytes hold
GuardLen == 2
GuardByte == 9

\* the span of length len, nobody having written to it, and what follows
Span(len) == [i \in 1..(len + GuardLen) |-> IF i <= len THEN 0 ELSE GuardByte]

\* the lengths of the spans a stream is opened over
SpanSizes == {1, MaxSize}

\* the bytes a caller passes to write
RawDatas == {[i \in 1..n |-> 1 + (i % 2)] : n \in 0..(MaxSize + 1)}

\* the environment of a stream that makes no system call and has no buffer
NoEnv == [b |-> ZeroBuffer, mem_ok |-> TRUE]

\* what a call on this stream leaves alone
RawFrame ==
  UNCHANGED <<bflags, res, hung, buf, poolVars, io, stdVars, rt, sigVars>>

\* r: what sio_stream_read or sio_stream_write returned; from: the position
\* before the call; got: the bytes a read copied out,
\* memcpy(buffer, (uint8_t*)data + position, read_size); a write copies the
\* first r.n bytes of data, memcpy((uint8_t*)data + position, buffer,
\* write_size)
RawApply(op, size, data, r) ==
  /\ stream' = IF "s" \in DOMAIN r THEN r.s ELSE stream
  /\ sres' = [op |-> op, err |-> r.err, size |-> size, n |-> r.n,
              from |-> stream.position,
              got |-> IF op = "read"
                      THEN read_bytes(mem.bytes, stream.position, r.n)
                      ELSE <<>>]
  /\ mem' = IF op = "write"
            THEN [mem EXCEPT !.bytes = write_bytes(@, stream.position,
                                                   SubSeq(data, 1, r.n))]
            ELSE mem
  /\ RawFrame

\* r: what sio_stream_seek returned
SeekApply(offset, r) ==
  /\ stream' = r.s
  /\ sres' = [op |-> "seek", err |-> r.err, size |-> offset, n |-> 0,
              from |-> stream.position, got |-> <<>>]
  /\ mem' = mem
  /\ RawFrame

RawRead ==
  /\ stream.type = "SIO_STREAM_RAWMEM"
  /\ \E size \in 0..(MaxSize + 1) :
       RawApply("read", size, <<>>, sio_stream_read(stream, size, 0, NoEnv))

RawWrite ==
  /\ stream.type = "SIO_STREAM_RAWMEM"
  /\ \E data \in RawDatas :
       RawApply("write", Len(data), data,
                sio_stream_write(stream, Len(data), 0, NoEnv))

RawSeek ==
  /\ stream.type = "SIO_STREAM_RAWMEM"
  /\ \E offset \in (-1 - MaxSize)..(MaxSize + 1), origin \in Origins :
       SeekApply(offset, sio_stream_seek(stream, buf, offset, origin, SysOk(0)))

NextRaw ==
  \/ RawRead
  \/ RawWrite
  \/ RawSeek

\* the bytes of a sequence
BytesOf(seq) == {seq[i] : i \in 1..Len(seq)}

-----------------------------------------------------------------------------
(* The Windows signal registry: g_win_signal_events, win_init_signals,      *)
(* win_signal_handler and signal_close of src/src/stream/signal.c           *)

\* the events CreateEvent hands out in one run; a handle is never handed out
\* twice
MaxEvents == 2
INVALID_HANDLE_VALUE == -1

\* the threads that open and close signal streams, one stream each
Openers == {"A", "B"}

\* the signals win_init_signals maps to a console control event
SupportedSignals == {"SIGINT", "SIGBREAK", "SIGTERM"}
SignalLists ==
  {<<"SIGINT">>, <<"SIGINT", "SIGBREAK">>, <<"SIGBREAK", "SIGABRT">>}

\* an element of the registry block that no statement has stored to yet
Uninit == [signal |-> "uninitialized", event |-> 0]

\* g_win_signal_events is NULL when allocated is FALSE, else the block of
\* win_signal_event_t it points to; registrations counts the calls of
\* SetConsoleCtrlHandler(win_signal_handler, TRUE) that succeeded; created and
\* closed are the handles CreateEvent returned and CloseHandle closed;
\* overflow: a store went past the end of the block; handled: what the last
\* win_signal_handler invocation did
NoWin ==
  [g_win_signal_events |-> <<>>, allocated |-> FALSE,
   g_win_signal_event_count |-> 0, handler_registered |-> FALSE,
   registrations |-> 0, created |-> 0, closed |-> {}, overflow |-> FALSE,
   handled |-> "none"]

\* pc: the statement of win_init_signals the thread executes next; signals, i,
\* event: its arguments and locals; stream_event: stream->data.signal.event of
\* the thread's stream; op, err: the last call and what it returned;
\* closed_event: the handle the last signal_close closed
IdleOpener ==
  [pc |-> "idle", signals |-> <<>>, i |-> 0, event |-> 0, stream_event |-> 0,
   op |-> "none", err |-> "SIO_SUCCESS", closed_event |-> 0]

\* g_win_signal_events[i - 1], read wherever the index points
EntryAt(w, i) ==
  IF i <= Len(w.g_win_signal_events)
  THEN w.g_win_signal_events[i] ELSE Uninit

\* the indices below g_win_signal_event_count whose entry satisfies Test
Matching(w, Test(_)) ==
  {i \in 1..w.g_win_signal_event_count : Test(EntryAt(w, i))}

First(S) == CHOOSE i \in S : \A j \in S : i <= j

\* realloc(g_win_signal_events, sizeof(win_signal_event_t) * n), and malloc
\* when old is empty
Resized(old, n) ==
  [i \in 1..n |-> IF i <= Len(old) THEN old[i] ELSE Uninit]

win_signal_handler(w, signal_type) ==
  LET hits == Matching(w, LAMBDA e : e.signal = signal_type)
  IN IF hits = {} THEN "not_handled"
     ELSE IF EntryAt(w, First(hits)).event \in w.closed
          THEN "SetEvent_on_closed_handle" ELSE "SetEvent"

\* the loop of signal_close over the registry: the first entry of the event
\* gets the last entry and the count drops by one
remove_event(w, event) ==
  LET hits == Matching(w, LAMBDA e : e.event = event)
      n == w.g_win_signal_event_count
  IN IF hits = {} THEN w
     ELSE [w EXCEPT
             !.g_win_signal_events =
               IF First(hits) < n /\ First(hits) <= Len(@)
               THEN [@ EXCEPT ![First(hits)] = EntryAt(w, n)] ELSE @,
             !.g_win_signal_event_count = n - 1]

OnlySig ==
  UNCHANGED <<bufVars, poolVars, streamVars, g_std,
              g_std_streams_initialized, memVars>>

\* sio_stream_open_signal up to its call of win_init_signals
SigOpen ==
  /\ win.created < MaxEvents
  /\ \E t \in Openers, signals \in SignalLists :
       /\ thread[t].pc = "idle"
       /\ thread[t].stream_event \in {0, INVALID_HANDLE_VALUE}
       /\ thread' = [thread EXCEPT ![t] =
            [IdleOpener EXCEPT !.pc = "alloc", !.signals = signals, !.i = 1,
                               !.op = "open"]]
       /\ UNCHANGED win
  /\ OnlySig

\* the malloc or realloc of the registry block
SigAlloc ==
  /\ \E t \in Openers, mem_ok \in BOOLEAN :
       /\ thread[t].pc = "alloc"
       /\ IF ~mem_ok
          THEN /\ thread' = [thread EXCEPT ![t].pc = "idle",
                                           ![t].err = "SIO_ERROR_MEM"]
               /\ UNCHANGED win
          ELSE /\ thread' = [thread EXCEPT ![t].pc = "create"]
               /\ win' =
                    IF ~win.allocated
                    THEN [win EXCEPT
                            !.g_win_signal_events =
                              Resized(<<>>, Len(thread[t].signals)),
                            !.allocated = TRUE,
                            !.g_win_signal_event_count = 0]
                    ELSE [win EXCEPT
                            !.g_win_signal_events =
                              Resized(@, win.g_win_signal_event_count
                                           + Len(thread[t].signals))]
  /\ OnlySig

SigCreateEvent ==
  /\ \E t \in Openers :
       /\ thread[t].pc = "create"
       /\ thread' = [thread EXCEPT ![t].pc = "switch",
                                   ![t].event = win.created + 1]
       /\ win' = [win EXCEPT !.created = @ + 1]
  /\ OnlySig

\* the head of the loop, the switch and the test of handler_registered; past
\* the last signal win_init_signals returns and sio_stream_open_signal stores
\* the event in the stream
SigSwitch ==
  /\ \E t \in Openers :
       /\ thread[t].pc = "switch"
       /\ IF thread[t].i > Len(thread[t].signals)
          THEN /\ thread' = [thread EXCEPT ![t].pc = "idle",
                                           ![t].stream_event = thread[t].event]
               /\ UNCHANGED win
          ELSE IF thread[t].signals[thread[t].i] \notin SupportedSignals
          THEN /\ thread' = [thread EXCEPT ![t].pc = "idle",
                                           ![t].err = "SIO_ERROR_UNSUPPORTED"]
               /\ win' = [win EXCEPT !.closed = @ \cup {thread[t].event}]
          ELSE /\ thread' = [thread EXCEPT ![t].pc =
                    IF win.handler_registered THEN "store" ELSE "register"]
               /\ UNCHANGED win
  /\ OnlySig

\* SetConsoleCtrlHandler(win_signal_handler, TRUE); handler_registered = TRUE
SigRegister ==
  /\ \E t \in Openers :
       /\ thread[t].pc = "register"
       /\ thread' = [thread EXCEPT ![t].pc = "store"]
       /\ win' = [win EXCEPT !.registrations = @ + 1,
                             !.handler_registered = TRUE]
  /\ OnlySig

\* g_win_signal_events[g_win_signal_event_count] = {sig, event}
SigStore ==
  /\ \E t \in Openers :
       /\ thread[t].pc = "store"
       /\ thread' = [thread EXCEPT ![t].pc = "count"]
       /\ win' =
            IF win.g_win_signal_event_count + 1 > Len(win.g_win_signal_events)
            THEN [win EXCEPT !.overflow = TRUE]
            ELSE [win EXCEPT
                    !.g_win_signal_events[win.g_win_signal_event_count + 1] =
                      [signal |-> thread[t].signals[thread[t].i],
                       event |-> thread[t].event]]
  /\ OnlySig

\* g_win_signal_event_count++ and the i++ of the loop
SigCount ==
  /\ \E t \in Openers :
       /\ thread[t].pc = "count"
       /\ thread' = [thread EXCEPT ![t].pc = "switch", ![t].i = @ + 1]
       /\ win' = [win EXCEPT !.g_win_signal_event_count = @ + 1]
  /\ OnlySig

\* signal_close of a stream that holds an event
SigClose ==
  /\ \E t \in Openers :
       /\ thread[t].pc = "idle"
       /\ thread[t].stream_event \notin {0, INVALID_HANDLE_VALUE}
       /\ thread' = [thread EXCEPT
            ![t].op = "close", ![t].err = "SIO_SUCCESS",
            ![t].closed_event = thread[t].stream_event,
            ![t].stream_event = INVALID_HANDLE_VALUE]
       /\ win' = [remove_event(win, thread[t].stream_event) EXCEPT
                    !.closed = @ \cup {thread[t].stream_event}]
  /\ OnlySig

\* a console control event arrives: Windows calls the registered handler
SigHandler ==
  /\ win.registrations > 0
  /\ \E signal_type \in SupportedSignals :
       win' = [win EXCEPT !.handled = win_signal_handler(win, signal_type)]
  /\ UNCHANGED thread
  /\ OnlySig

NextSig ==
  \/ SigOpen
  \/ SigAlloc
  \/ SigCreateEvent
  \/ SigSwitch
  \/ SigRegister
  \/ SigStore
  \/ SigCount
  \/ SigClose
  \/ SigHandler

\* the threads whose stream is open: the open returned SIO_SUCCESS and no
\* close followed
HasStream(t) == thread[t].pc = "idle" /\ thread[t].stream_event > 0

\* the registry entries of a signal and an event
EntriesOf(sig, event) ==
  Matching(win, LAMBDA e : e = [signal |-> sig, event |-> event])

\* C28: concurrent opens and closes of signal streams and handler invocations
\* never lose, duplicate or corrupt registry entries: every open stream has
\* exactly one entry for each of its signals, every entry below the count was
\* stored by an open, and no store left the registry block.
C28_RegistryIntact ==
  /\ ~win.overflow
  /\ win.g_win_signal_event_count <= Len(win.g_win_signal_events)
  /\ Matching(win, LAMBDA e : e = Uninit) = {}
  /\ \A t \in Openers : HasStream(t) =>
       \A k \in 1..Len(thread[t].signals) :
         Cardinality(EntriesOf(thread[t].signals[k],
                               thread[t].stream_event)) = 1

\* C29: the console control handler is registered exactly once per process:
\* never twice, and once as soon as a signal stream is open.
C29_HandlerRegisteredOnce ==
  /\ win.registrations <= 1
  /\ (\E t \in Openers : HasStream(t)) => win.registrations = 1

\* C30: after signal_close no entry of the registry refers to the closed
\* event, and the close keeps the entries of every other event.
C30_CloseRemovesEvent ==
  [][\A t \in Openers :
       (thread[t].pc = "idle" /\ thread'[t].op = "close"
          /\ thread'[t] # thread[t])
         => /\ Matching(win', LAMBDA e : e.event = thread'[t].closed_event)
                 = {}
            /\ \A i \in Matching(win,
                          LAMBDA e : e.event # thread'[t].closed_event) :
                 Matching(win', LAMBDA e : e = EntryAt(win, i)) # {}]_vars

-----------------------------------------------------------------------------
(* SpecMap: the release steps of close.  A file stream whose storage holds *)
(* a mapped region (data.file.mmap_data, a field of the public             *)
(* sio_stream_t that file_close unmaps), and a signal stream               *)

MapTypes == {"SIO_STREAM_FILE", "SIO_STREAM_SIGNAL"}

\* errno, unmap_ok: what close(fd) and munmap were going to report in the
\* call; mapped: the stream held a region when the call was made
MapResult(op, err, errno, unmap_ok, mapped) ==
  [op |-> op, err |-> err, errno |-> errno, unmap_ok |-> unmap_ok,
   mapped |-> mapped]

MapOpen ==
  /\ stream.type = "SIO_STREAM_UNKNOWN" \/ (~io.open /\ ~stream.mmap_data)
  /\ \E type \in MapTypes, opt \in OpenFlags :
       stream' = OpenFd(type, opt)
  /\ sres' = MapResult("open", "SIO_SUCCESS", "0", TRUE, FALSE)
  /\ io' = [NoIo EXCEPT !.open = TRUE]
  /\ UNCHANGED buf
  /\ OnlyStream

\* the owner of the stream maps the file and stores the region in
\* stream->data.file.mmap_data and mmap_size
MapRegion ==
  /\ stream.type = "SIO_STREAM_FILE"
  /\ stream.fd >= 0
  /\ ~stream.mmap_data
  /\ stream' = [stream EXCEPT !.mmap_data = TRUE]
  /\ sres' = MapResult("mmap", "SIO_SUCCESS", "0", TRUE, FALSE)
  /\ UNCHANGED <<io, buf>>
  /\ OnlyStream

MapCloseApply(errno, unmap_ok, r) ==
  /\ stream' = r.s
  /\ sres' = MapResult("close", r.err, errno, unmap_ok, stream.mmap_data)
  /\ io' = [open      |-> r.k.open,
            closed_ok |-> io.closed_ok \/ r.err = "SIO_SUCCESS",
            late      |-> io.late \/ (r.native /\ io.closed_ok)]
  /\ UNCHANGED buf
  /\ OnlyStream

MapClose ==
  /\ stream.type \in MapTypes
  /\ \E errno \in CloseErrnos, kept \in BOOLEAN, unmap_ok \in BOOLEAN :
       MapCloseApply(errno, unmap_ok,
                     sio_stream_close(stream, buf, [open |-> io.open], errno,
                                      kept, unmap_ok))

NextMap ==
  \/ MapOpen
  \/ MapRegion
  \/ MapClose

-----------------------------------------------------------------------------
(* SpecEof: the end-of-stream query of a file stream, file_get_option with *)
(* SIO_INFO_EOF and sio_stream_eof, over a regular file read to its end    *)

SizeofInt == 4

\* what read() answers on a regular file with remaining bytes before its
\* end: all that is asked for up to remaining, then 0
FileScript(remaining) == <<SysOk(remaining), SysOk(0)>>

\* case SIO_INFO_EOF of file_get_option: size is *size on entry, the result
\* holds the error, the int stored through value and *size on return
file_get_option(s, size, remaining) ==
  IF size < SizeofInt
  THEN [err |-> "SIO_ERROR_BUFFER_TOO_SMALL", eof |-> 0, size |-> size]
  ELSE [err |-> "SIO_SUCCESS",
        eof |-> IF file_read(s, 0, 0, FileScript(remaining), 1).err
                     = "SIO_ERROR_EOF" THEN 1 ELSE 0,
        size |-> SizeofInt]

sio_stream_get_option(s, size, remaining) ==
  IF check_stream_valid(s) # "SIO_SUCCESS"
  THEN [err |-> check_stream_valid(s), eof |-> 0, size |-> size]
  ELSE file_get_option(s, size, remaining)

sio_stream_eof(s, remaining) ==
  IF file_get_option(s, SizeofInt, remaining).err # "SIO_SUCCESS" THEN 0
  ELSE file_get_option(s, SizeofInt, remaining).eof

\* the file behind the descriptor: its length and the descriptor's offset
FileLens == 0..MaxSize

EofResult(op, err, size, n, eof) ==
  [op |-> op, err |-> err, size |-> size, n |-> n, eof |-> eof]

EofFrame == UNCHANGED <<bflags, res, hung, buf, poolVars, stdVars, memVars,
                        sigVars>>

EofReadApply(size, r) ==
  /\ sres' = EofResult("read", r.err, size, r.n, 0)
  /\ io' = [io EXCEPT !.offset = @ + r.n]
  /\ UNCHANGED stream
  /\ EofFrame

EofRead ==
  /\ stream.type = "SIO_STREAM_FILE"
  /\ \E size \in IoSizes, req \in {{}, {"SIO_DOALL"}} :
       EofReadApply(size,
                    sio_stream_read(stream, size, FlagWord(req),
                                    FileScript(io.size - io.offset)))

EofQueryApply(size, r) ==
  /\ sres' = EofResult("get_option", r.err, size, r.size, r.eof)
  /\ UNCHANGED <<stream, io>>
  /\ EofFrame

EofGetOption ==
  /\ stream.type = "SIO_STREAM_FILE"
  /\ \E size \in {SizeofInt - 1, SizeofInt} :
       EofQueryApply(size,
                     sio_stream_get_option(stream, size,
                                           io.size - io.offset))

EofHelper ==
  /\ stream.type = "SIO_STREAM_FILE"
  /\ sres' = EofResult("eof", "SIO_SUCCESS", 0, 0,
                       sio_stream_eof(stream, io.size - io.offset))
  /\ UNCHANGED <<stream, io>>
  /\ EofFrame

\* lseek(fd, 0, SEEK_SET) through sio_stream_seek
EofRewind ==
  /\ stream.type = "SIO_STREAM_FILE"
  /\ io.offset > 0
  /\ sres' = EofResult("seek", "SIO_SUCCESS", 0, 0, 0)
  /\ io' = [io EXCEPT !.offset = 0]
  /\ UNCHANGED stream
  /\ EofFrame

NextEof ==
  \/ EofRead
  \/ EofGetOption
  \/ EofHelper
  \/ EofRewind

\* C32: the end-of-stream query reflects the state of a file stream:
\* get_option(EOF), when it succeeds, and sio_stream_eof report true if and
\* only if the cursor is at the end of the file.
C32_EofReflectsState ==
  ((sres.op = "get_option" /\ sres.err = "SIO_SUCCESS") \/ sres.op = "eof")
    => (sres.eof = 1 <=> io.offset = io.size)

-----------------------------------------------------------------------------
(* SpecTimer: a timer stream over a timerfd (src/src/stream/timer.c, POSIX *)
(* branch), with the passing of time                                        *)

SizeofUint64 == 8
MsPerSec == 1000
NsPerMs == 1000000

\* the time the model lets pass after the timer was programmed, in ms
MaxTicks == 4
Intervals == {1, 2}

\* its.it_value or its.it_interval for a number of milliseconds
timespec(ms) ==
  [tv_sec |-> ms \div MsPerSec, tv_nsec |-> (ms % MsPerSec) * NsPerMs]
ms_of(ts) == ts.tv_sec * MsPerSec + ts.tv_nsec \div NsPerMs

\* the timer behind the descriptor: value is the time to the next expiration
\* (0: disarmed), period what value is reloaded with at an expiration,
\* pending the expirations no read has consumed
timerfd_settime(it_value, it_interval) ==
  [value |-> ms_of(it_value), period |-> ms_of(it_interval), pending |-> 0]

\* one millisecond passes
timerfd_tick(k) ==
  IF k.value = 0 THEN k
  ELSE IF k.value = 1
  THEN [k EXCEPT !.value = k.period, !.pending = @ + 1]
  ELSE [k EXCEPT !.value = @ - 1]

\* sio_stream_open_timer: the stream and the timer it programs
sio_stream_open_timer(interval_ms, is_oneshot, opt) ==
  [s |-> [ZeroStream EXCEPT !.type = "SIO_STREAM_TIMER", !.flags = opt,
                            !.ops = "timer_ops", !.fd = NativeFd],
   k |-> timerfd_settime(timespec(interval_ms),
                         IF is_oneshot THEN timespec(0)
                         ELSE timespec(interval_ms)),
   err |-> "SIO_SUCCESS"]

\* timer_read returns the error, *bytes_read, the bytes it stored in the
\* caller's buffer, the timer, and the time it waited; wait: the read never
\* returns (select on a timer that is disarmed)
TimerRet(err, n, stored, k, waited, hang) ==
  [err |-> err, n |-> n, stored |-> stored, k |-> k, waited |-> waited,
   hang |-> hang]

timer_read(s, size, flags, k) ==
  IF BitAnd(s.flags, SIO_STREAM_READ) = 0
  THEN TimerRet("SIO_ERROR_PERM", 0, 0, k, 0, FALSE)
  ELSE IF k.pending = 0 /\ BitAnd(flags, SIO_MSG_DONTWAIT) # 0
  THEN TimerRet("SIO_ERROR_WOULDBLOCK", 0, 0, k, 0, FALSE)
  ELSE IF k.pending = 0 /\ k.value = 0
  THEN TimerRet("SIO_SUCCESS", 0, 0, k, 0, TRUE)
  ELSE TimerRet("SIO_SUCCESS", SizeofUint64,
                IF size >= SizeofUint64 THEN SizeofUint64 ELSE 0,
                IF k.pending = 0
                THEN [k EXCEPT !.value = k.period] ELSE [k EXCEPT !.pending = 0],
                IF k.pending = 0 THEN k.value ELSE 0, FALSE)

\* words: the 8-byte words of the caller's buffer
timer_write(s, size, words, k) ==
  IF BitAnd(s.flags, SIO_STREAM_WRITE) = 0
  THEN [err |-> "SIO_ERROR_PERM", n |-> 0, k |-> k]
  ELSE IF size < SizeofUint64
  THEN [err |-> "SIO_ERROR_PARAM", n |-> 0, k |-> k]
  ELSE [err |-> "SIO_SUCCESS",
        n |-> SizeofUint64
                * (IF size >= 2 * SizeofUint64 /\ words[2] > 0 THEN 2 ELSE 1),
        k |-> timerfd_settime(timespec(words[1]),
                              IF size >= 2 * SizeofUint64
                              THEN timespec(words[2]) ELSE timespec(0))]

\* case SIO_OPT_TIMER_ONESHOT of timer_get_option
timer_get_option(s, k) ==
  IF timespec(k.period).tv_sec = 0 /\ timespec(k.period).tv_nsec = 0
  THEN 1 ELSE 0

\* io.k: the timer; since: the time since it was programmed; fired: its
\* expirations since then; T: the interval it was programmed with; single:
\* it was programmed by a write of one 8-byte word to a periodic timer
TimerIo(k, since, fired, T, single) ==
  [k |-> k, since |-> since, fired |-> fired, T |-> T, single |-> single]

TimerResult(op, err, size, n, stored, val) ==
  [op |-> op, err |-> err, size |-> size, n |-> n, stored |-> stored,
   val |-> val]

TimerFrame == UNCHANGED <<bflags, res, buf, poolVars, stdVars, memVars,
                          sigVars>>

TimerTick ==
  /\ io.since < MaxTicks
  /\ ~hung
  /\ io' = [io EXCEPT !.k = timerfd_tick(io.k), !.since = @ + 1,
                      !.fired = IF io.k.value = 1 THEN @ + 1 ELSE @]
  /\ UNCHANGED <<stream, sres, hung>>
  /\ TimerFrame

TimerReadApply(size, r) ==
  /\ io.since + r.waited <= MaxTicks
  /\ sres' = TimerResult("read", r.err, size, r.n, r.stored, 0)
  /\ io' = [io EXCEPT !.k = r.k, !.since = @ + r.waited,
                      !.fired = IF r.waited > 0 THEN @ + 1 ELSE @]
  /\ hung' = r.hang
  /\ UNCHANGED stream
  /\ TimerFrame

TimerRead ==
  /\ ~hung
  /\ \E size \in {SizeofUint64 - 1, SizeofUint64},
        req \in {{}, {"SIO_MSG_DONTWAIT"}} :
       TimerReadApply(size, timer_read(stream, size, FlagWord(req), io.k))

TimerWriteApply(size, words, r) ==
  /\ sres' = TimerResult("write", r.err, size, r.n, 0, 0)
  /\ io' = IF r.err = "SIO_SUCCESS"
           THEN TimerIo(r.k, 0, 0, words[1],
                        size < 2 * SizeofUint64 /\ io.k.period > 0)
           ELSE io
  /\ UNCHANGED <<stream, hung>>
  /\ TimerFrame

TimerWrite ==
  /\ ~hung
  /\ \E size \in {SizeofUint64 - 1, SizeofUint64, 2 * SizeofUint64},
        T \in Intervals, P \in Intervals \cup {0} :
       TimerWriteApply(size, <<T, P>>,
                       timer_write(stream, size, <<T, P>>, io.k))

TimerGetOneshot ==
  /\ ~hung
  /\ sres' = TimerResult("get_option", "SIO_SUCCESS", 0, 0, 0,
                         timer_get_option(stream, io.k))
  /\ UNCHANGED <<stream, io, hung>>
  /\ TimerFrame

NextTimer ==
  \/ TimerTick
  \/ TimerRead
  \/ TimerWrite
  \/ TimerGetOneshot

\* C33: after a write of a single 8-byte interval T to a periodic timer the
\* timer has expired once for every T that has passed since the write (not
\* before T, and again every T), no expiration is pending before T, and the
\* one-shot option tells whether the timer repeats.
C33_IntervalWriteKeepsPeriodic ==
  /\ io.single =>
       /\ io.fired = io.since \div io.T
       /\ io.since < io.T => io.k.pending = 0
  /\ sres.op = "get_option" => (sres.val = 1 <=> io.k.period = 0)

\* C40: every stream read reports a byte count no greater than the size
\* that was requested and never reports bytes it did not store in the
\* caller's buffer, also when the buffer is shorter than the payload of a
\* timer read
C40_ReadCountWithinBuffer ==
  sres.op = "read" => /\ sres.n <= sres.size
                      /\ sres.n <= sres.stored

-----------------------------------------------------------------------------
(* SpecMask: signal streams over signalfd and the signal mask of the       *)
(* process (src/src/stream/signal.c, POSIX branch)                          *)

\* the signal streams of the program and the signals they are opened for
SigStreams == {"a", "b"}
MaskLists == {<<"SIGINT">>, <<"SIGTERM">>, <<"SIGINT", "SIGTERM">>}

\* sigemptyset and the sigaddset loop
sigset_of(signals) == {signals[i] : i \in 1..Len(signals)}

\* a signal stream: its descriptor and data.signal.mask
ZeroSignal == [type |-> "SIO_STREAM_UNKNOWN", flags |-> 0, ops |-> "NULL",
               fd |-> 0, mask |-> {}]

\* the lowest descriptor the process does not hold
LowestFd(fds) == CHOOSE fd \in NativeFd..(NativeFd + Cardinality(fds)) :
                   /\ fd \notin fds
                   /\ \A g \in NativeFd..(fd - 1) : g \in fds

\* k: the signals blocked in the process and the descriptors it holds
sio_stream_open_signal(signals, opt, k, mask_ok, fd_ok) ==
  LET s0 == [ZeroSignal EXCEPT !.type = "SIO_STREAM_SIGNAL", !.flags = opt,
                               !.ops = "signal_ops"]
      mask == sigset_of(signals)
  IN  IF Len(signals) = 0 THEN [s |-> ZeroSignal, k |-> k, err |-> "SIO_ERROR_PARAM"]
      ELSE IF ~mask_ok THEN [s |-> s0, k |-> k, err |-> sio_get_last_error("EINVAL")]
      ELSE IF ~fd_ok
      THEN [s |-> s0, k |-> [k EXCEPT !.blocked = @ \ mask],
            err |-> sio_get_last_error("EMFILE")]
      ELSE [s |-> [s0 EXCEPT !.fd = LowestFd(k.fds), !.mask = mask],
            k |-> [blocked |-> k.blocked \cup mask,
                   fds |-> k.fds \cup {LowestFd(k.fds)}],
            err |-> "SIO_SUCCESS"]

\* signal_close with the signal mask: sigprocmask(SIG_UNBLOCK, &mask), whose
\* result is ignored, then close(fd)
signal_close_posix(s, k, errno) ==
  IF s.fd >= 0
  THEN IF errno # "0"
       THEN [s |-> s, k |-> [k EXCEPT !.blocked = @ \ s.mask],
             err |-> sio_get_last_error(errno)]
       ELSE [s |-> [s EXCEPT !.fd = -1],
             k |-> [blocked |-> k.blocked \ s.mask, fds |-> k.fds \ {s.fd}],
             err |-> "SIO_SUCCESS"]
  ELSE [s |-> s, k |-> k, err |-> "SIO_SUCCESS"]

IsOpenSignal(s) == s.type = "SIO_STREAM_SIGNAL" /\ s.fd >= NativeFd

MaskFrame == UNCHANGED <<bflags, res, hung, buf, poolVars, stdVars, memVars,
                         sigVars>>

MaskApply(id, op, r) ==
  /\ stream' = [stream EXCEPT ![id] = r.s]
  /\ io' = r.k
  /\ sres' = [op |-> op, id |-> id, err |-> r.err]
  /\ MaskFrame

MaskOpen ==
  \E id \in SigStreams :
    /\ ~IsOpenSignal(stream[id])
    /\ \E signals \in MaskLists, opt \in {SIO_STREAM_READ, SIO_STREAM_RDWR},
          fd_ok \in BOOLEAN :
         MaskApply(id, "open",
                   sio_stream_open_signal(signals, opt, io, TRUE, fd_ok))

MaskClose ==
  \E id \in SigStreams :
    /\ stream[id].type = "SIO_STREAM_SIGNAL"
    /\ \E errno \in {"0", "EIO"} :
         MaskApply(id, "close", signal_close_posix(stream[id], io, errno))

NextMask ==
  \/ MaskOpen
  \/ MaskClose

\* C35: while a signal stream opened for a signal is open, the signal is
\* blocked in the signal mask of the process.
C35_OpenStreamsKeepSignalsBlocked ==
  \A id \in SigStreams :
    IsOpenSignal(stream[id]) => stream[id].mask \subseteq io.blocked

----------------------------------------------------------------------------
(* SpecAfter: an open stream of any kind is closed, and read and written
   before and after that *)

NextAfter ==
  \/ StreamClose
  \/ AnyRead
  \/ AnyWrite

\* C37: once a close of the stream has returned success, no read or write of
\* one or more bytes on it succeeds, and none changes the buffer the stream
\* was opened over; this holds for every kind of stream, a buffer stream
\* over a buffer of the caller's included
C37_ClosedStreamInert ==
  [][(/\ io.closed_ok
      /\ sres' # sres
      /\ sres'.op \in {"read", "write"}
      /\ sres'.size > 0)
       => /\ sres'.err # "SIO_SUCCESS"
          /\ buf' = buf]_vars

----------------------------------------------------------------------------
(* SpecRo: a buffer stream over a caller's buffer that holds data, driven *)
(* through the stream calls only                                           *)

\* stream->ops->set_option of a buffer stream: SIO_OPT_BUFFER_SIZE is the
\* one option buffer_set_option knows
sio_stream_set_option(s, b, option, value, mem_ok) ==
  IF check_stream_operation(s, "set_option") # "SIO_SUCCESS"
  THEN Ret(b, check_stream_operation(s, "set_option"))
  ELSE IF s.buffer = "NULL" THEN Ret(b, "SIO_ERROR_IO")
  ELSE IF option = "SIO_OPT_BUFFER_SIZE" THEN buffer_set_option(b, value, mem_ok)
  ELSE Ret(b, "SIO_ERROR_UNSUPPORTED")

\* the block after a stream write that returned r on the buffer b: a write
\* that succeeded copied r.n bytes to the position, into a new block when
\* the capacity moved
stream_write_bytes(b, bytes, r) ==
  IF r.err # "SIO_SUCCESS" \/ r.n = 0 THEN bytes
  ELSE write_bytes(IF r.b.capacity # b.capacity
                   THEN resize_bytes(bytes, b.size, r.b.capacity)
                   ELSE bytes,
                   b.position, [i \in 1..r.n |-> MaxData + 1])

\* the block after set_option(SIO_OPT_BUFFER_SIZE) returned r
set_option_bytes(b, bytes, r) ==
  IF r.err = "SIO_SUCCESS" /\ "capacity" \in DOMAIN r.b
  THEN resize_bytes(bytes, b.size, r.b.capacity)
  ELSE bytes

\* the caller's buffer when the stream is opened over it: two bytes written
\* and the position back at the start
Filled(b) == [b EXCEPT !.size = MaxData, !.position = 0]
FilledBytes(capacity) == [i \in 1..capacity |-> IF i <= MaxData THEN i ELSE 0]

RoApply(op, n, r, bytes) ==
  /\ buf' = IF "b" \in DOMAIN r THEN r.b ELSE buf
  /\ res' = Result(op, r.err, n)
  /\ mem' = [mem EXCEPT !.bytes = bytes,
                        !.writes = IF op = "write" /\ r.err = "SIO_SUCCESS"
                                   THEN @ + 1 ELSE @]
  /\ rt' = NoRt
  /\ hung' = (r.err = "HANG")
  /\ OnlyMem

RoRead ==
  /\ Alive
  /\ \E size \in IoSizes :
       RoApply("read", size,
               sio_stream_read(stream, size, 0, [b |-> buf, mem_ok |-> TRUE]),
               mem.bytes)

RoWriteApply(size, r) ==
  RoApply("write", size, r, stream_write_bytes(buf, mem.bytes, r))

RoWrite ==
  /\ Alive
  /\ mem.writes < MaxTruncWrites
  /\ \E size \in IoSizes, mem_ok \in BOOLEAN :
       RoWriteApply(size, sio_stream_write(stream, size, 0,
                                           [b |-> buf, mem_ok |-> mem_ok]))

RoSeek ==
  /\ Alive
  /\ \E offset \in {-1, 0, 1}, origin \in {"SIO_SEEK_SET", "SIO_SEEK_END"} :
       RoApply("seek", offset,
               sio_stream_seek(stream, buf, offset, origin, SysOk(0)),
               mem.bytes)

RoTruncateApply(size, r) ==
  RoApply("truncate", size, r, truncate_bytes(buf, mem.bytes, size, r))

RoTruncate ==
  /\ Alive
  /\ \E size \in {1, SIO_BUFFER_ALIGNMENT + 1}, mem_ok \in BOOLEAN :
       RoTruncateApply(size, sio_stream_truncate(stream, buf, size, SysOk(0),
                                                 mem_ok))

RoSetOptionApply(value, r) ==
  RoApply("set_option", value, r, set_option_bytes(buf, mem.bytes, r))

RoSetOption ==
  /\ Alive
  /\ \E option \in {"SIO_OPT_BUFFER_SIZE", "SIO_OPT_BLOCKING"},
        value \in {1, MaxAlloc, MaxAlloc + 1},
        mem_ok \in BOOLEAN :
       RoSetOptionApply(value,
                        sio_stream_set_option(stream, buf, option, value, mem_ok))

NextRo ==
  \/ RoRead
  \/ RoWrite
  \/ RoSeek
  \/ RoTruncate
  \/ RoSetOption

\* C38: a buffer stream opened without write access never changes its
\* buffer: no write, truncate, set_option, seek or read on the stream alters
\* the size, the capacity or the bytes of the buffer
C38_ReadOnlyStreamKeepsBuffer ==
  [][BitAnd(stream.flags, SIO_STREAM_WRITE) = 0
       => /\ buf'.size = buf.size
          /\ buf'.capacity = buf.capacity
          /\ mem'.bytes = mem.bytes]_vars

----------------------------------------------------------------------------
(* SpecFail: a socket stream whose open may fail, closed whatever open    *)
(* returned, in a process that holds descriptors of its own               *)

\* stdin, stdout and stderr
StdFds == {0, 1, 2}

\* a descriptor the process holds for its own use
BusyFd == AF_INET + HalfMod

\* fds: the descriptors open in the process; own: the descriptor the
\* stream's open created and the stream still holds, -1 when there is none
FailIo(fds, own) == [fds |-> fds, own |-> own]

\* r: what sio_stream_open_socket returned when create_socket gave sock; a
\* descriptor whose setup failed has been closed again
FailOpenApply(sock, r) ==
  /\ stream' = r.s
  /\ sres' = SockResult("open", r.err, 0, FALSE, NoAddr)
  /\ io' = IF r.open THEN FailIo(io.fds \cup {sock}, sock) ELSE io

FailOpen ==
  /\ io.own = -1
  /\ \E addr \in SockAddrs, tcp \in BOOLEAN, server \in BOOLEAN,
        sock \in {-1, LowestFd(io.fds)}, setup_ok \in BOOLEAN :
       FailOpenApply(sock,
                     sio_stream_open_socket(addr, SIO_STREAM_RDWR, tcp, server,
                                            sock, "EIO", setup_ok))
  /\ UNCHANGED buf
  /\ OnlyStream

\* r: what sio_stream_close returned; fd: data.socket.fd before the call
FailCloseApply(fd, r) ==
  /\ stream' = [stream EXCEPT !.data = store_fd(@, r.s.fd)]
  /\ sres' = SockResult("close", r.err, 0, FALSE, NoAddr)
  /\ io' = IF r.k.open THEN io
           ELSE FailIo(io.fds \ {fd}, IF fd = io.own THEN -1 ELSE io.own)

FailClose ==
  /\ stream.ops # "NULL"
  /\ \E errno \in CloseErrnos, kept \in BOOLEAN :
       FailCloseApply(socket_fd(stream.data),
                      sio_stream_close(FdView(stream), buf,
                                       [open |-> socket_fd(stream.data) \in io.fds],
                                       errno, kept, TRUE))
  /\ UNCHANGED buf
  /\ OnlyStream

NextFail ==
  \/ FailOpen
  \/ FailClose

\* C39: closing a stream never closes a descriptor that the stream did not
\* create itself and still hold: after a failed socket open the close
\* closes nothing, neither descriptor 0 nor a descriptor whose number comes
\* from bytes left in the stream's storage
C39_CloseOnlyOwnDescriptor ==
  [][\A fd \in io.fds \ io'.fds : fd = io.own]_vars

----------------------------------------------------------------------------
(* SpecStd: threads calling sio_stream_stdin, _stdout and _stderr *)

\* the threads that call the accessors
NumThreads == 2
Threads == 1..NumThreads

StdNames == <<"stdin", "stdout", "stderr">>
StdFd(name) ==
  CASE name = "stdin" -> 0 [] name = "stdout" -> 1 [] name = "stderr" -> 2
StdOpt(name) == IF name = "stdin" THEN SIO_STREAM_READ ELSE SIO_STREAM_WRITE

\* the stores of sio_stream_open_file_from_handle, in program order
OpenStores == <<"memset", "type", "flags", "ops", "fd">>

\* static sio_stream_t g_stdin = {0}, g_stdout = {0}, g_stderr = {0}
ZeroStd == [name \in {"stdin", "stdout", "stderr"} |-> ZeroStream]

\* pc: the statement the thread executes next; which: the accessor it is in;
\* at, store: the stream and the store initialize_std_streams has reached;
\* err: what the accessor returned
IdleThread ==
  [pc |-> "idle", which |-> "stdin", at |-> 1, store |-> 1,
   err |-> "SIO_SUCCESS"]

\* the stream after the store-th store of its constructor
StoreInto(s, name, store) ==
  LET done == sio_stream_open_file_from_handle(StdFd(name), StdOpt(name))
  IN  CASE OpenStores[store] = "memset" -> ZeroStream
        [] OpenStores[store] = "type"   -> [s EXCEPT !.type = done.type]
        [] OpenStores[store] = "flags"  -> [s EXCEPT !.flags = done.flags]
        [] OpenStores[store] = "ops"    -> [s EXCEPT !.ops = done.ops]
        [] OpenStores[store] = "fd"     -> [s EXCEPT !.fd = done.fd]

Goto(t, pc) == thread' = [thread EXCEPT ![t].pc = pc]

\* a thread enters one of the three accessors
StdCall ==
  \E t \in Threads :
    /\ thread[t].pc \in {"idle", "done"}
    /\ \E which \in {"stdin", "stdout", "stderr"} :
         thread' = [thread EXCEPT ![t] = [IdleThread EXCEPT !.pc = "check",
                                                            !.which = which]]
    /\ UNCHANGED <<g_std, g_std_streams_initialized>>
    /\ OnlyStd

\* if (g_std_streams_initialized) return SIO_SUCCESS;
StdCheck ==
  \E t \in Threads :
    /\ thread[t].pc = "check"
    /\ Goto(t, IF g_std_streams_initialized THEN "return" ELSE "memset")
    /\ UNCHANGED <<g_std, g_std_streams_initialized>>
    /\ OnlyStd

\* memset(&g_stdin, 0, ...); memset(&g_stdout, 0, ...); memset(&g_stderr, ...)
StdMemset ==
  \E t \in Threads :
    /\ thread[t].pc = "memset"
    /\ g_std' = [g_std EXCEPT ![StdNames[thread[t].at]] = ZeroStream]
    /\ thread' = IF thread[t].at < Len(StdNames)
                 THEN [thread EXCEPT ![t].at = thread[t].at + 1]
                 ELSE [thread EXCEPT ![t].pc = "open", ![t].at = 1]
    /\ UNCHANGED g_std_streams_initialized
    /\ OnlyStd

\* one store of sio_stream_open_file_from_handle(&g_stdin, 0, READ), then of
\* the same call for g_stdout and g_stderr; the calls cannot fail
StdOpen ==
  \E t \in Threads :
    /\ thread[t].pc = "open"
    /\ LET name == StdNames[thread[t].at]
       IN  g_std' = [g_std EXCEPT ![name] =
                       StoreInto(g_std[name], name, thread[t].store)]
    /\ thread' =
         IF thread[t].store < Len(OpenStores)
         THEN [thread EXCEPT ![t].store = thread[t].store + 1]
         ELSE IF thread[t].at < Len(StdNames)
         THEN [thread EXCEPT ![t].at = thread[t].at + 1, ![t].store = 1]
         ELSE [thread EXCEPT ![t].pc = "set_flag", ![t].at = 1, ![t].store = 1]
    /\ UNCHANGED g_std_streams_initialized
    /\ OnlyStd

\* g_std_streams_initialized = 1;
StdSetFlag ==
  \E t \in Threads :
    /\ thread[t].pc = "set_flag"
    /\ g_std_streams_initialized' = TRUE
    /\ Goto(t, "return")
    /\ UNCHANGED g_std
    /\ OnlyStd

\* *stdin = &g_stdin; return err;
StdReturn ==
  \E t \in Threads :
    /\ thread[t].pc = "return"
    /\ thread' = [thread EXCEPT ![t].pc = "done", ![t].err = "SIO_SUCCESS"]
    /\ UNCHANGED <<g_std, g_std_streams_initialized>>
    /\ OnlyStd

NextStd ==
  \/ StdCall
  \/ StdCheck
  \/ StdMemset
  \/ StdOpen
  \/ StdSetFlag
  \/ StdReturn

\* kind, flags, handle and operations table of a standard stream are set
FullyConstructed(name) ==
  g_std[name] = sio_stream_open_file_from_handle(StdFd(name), StdOpt(name))

----------------------------------------------------------------------------
(* C10: the standard streams are thread-safe to obtain: whenever a thread  *)
(* holds a standard stream that an accessor handed back with success, that *)
(* stream is fully constructed (kind, flags, handle and operations table   *)
(* set), never partially initialised or reset.                             *)
C10_StdStreamsSafeToObtain ==
  \A t \in Threads :
    (thread[t].pc = "done" /\ thread[t].err = "SIO_SUCCESS")
      => FullyConstructed(thread[t].which)

----------------------------------------------------------------------------
(* C11: the standard streams are constructed by a one-time initializer:    *)
(* once the three streams are published (the initialized flag is set) no   *)
(* step of any thread overwrites them, and no two threads are inside the   *)
(* construction at the same time.                                          *)
Constructing(t) == thread[t].pc \in {"memset", "open", "set_flag"}

C11_OneTimeInitializer ==
  [][/\ g_std_streams_initialized => g_std' = g_std
     /\ Cardinality({t \in Threads : Constructing(t)}) <= 1]_vars

----------------------------------------------------------------------------
(* Specifications: each drives one subsystem and leaves the others idle *)

\* a zeroed sio_buffer_t and the buffer stream that will wrap it
InitBuf ==
  /\ buf = ZeroBuffer
  /\ bflags \in {SIO_STREAM_READ, SIO_STREAM_RDWR}
  /\ res = NoRes
  /\ hung = FALSE
  /\ pool = sio_buffer_pool_create(1, "block_a")
  /\ held = {}
  /\ released = NoPtr
  /\ pres = NoPres
  /\ stream = ZeroStream
  /\ sres = NoSres
  /\ io = NoIo
  /\ g_std = ZeroStd
  /\ g_std_streams_initialized = FALSE
  /\ thread = [t \in Threads |-> IdleThread]
  /\ mem = NoMem
  /\ rt = NoRt
  /\ win = NoWin

SpecBuf == InitBuf /\ [][NextBuf]_vars

\* a pool fresh from sio_buffer_pool_create
InitPool ==
  /\ buf = ZeroBuffer
  /\ bflags = SIO_STREAM_READ
  /\ res = NoRes
  /\ hung = FALSE
  /\ pool \in {sio_buffer_pool_create(n, "block_a") : n \in 1..MaxPool}
  /\ held = {}
  /\ released = NoPtr
  /\ pres = NoPres
  /\ stream = ZeroStream
  /\ sres = NoSres
  /\ io = NoIo
  /\ g_std = ZeroStd
  /\ g_std_streams_initialized = FALSE
  /\ thread = [t \in Threads |-> IdleThread]
  /\ mem = NoMem
  /\ rt = NoRt
  /\ win = NoWin

SpecPool == InitPool /\ [][NextPool]_vars

\* a sio_stream_t nobody has opened yet
InitClose ==
  /\ buf = ZeroBuffer
  /\ bflags = SIO_STREAM_READ
  /\ res = NoRes
  /\ hung = FALSE
  /\ pool = sio_buffer_pool_create(1, "block_a")
  /\ held = {}
  /\ released = NoPtr
  /\ pres = NoPres
  /\ stream = ZeroStream
  /\ sres = NoSres
  /\ io = NoIo
  /\ g_std = ZeroStd
  /\ g_std_streams_initialized = FALSE
  /\ thread = [t \in Threads |-> IdleThread]
  /\ mem = NoMem
  /\ rt = NoRt
  /\ win = NoWin

SpecClose == InitClose /\ [][NextClose]_vars

\* a file, socket or datagram stream just opened over a descriptor
InitIO ==
  /\ buf = ZeroBuffer
  /\ bflags = SIO_STREAM_READ
  /\ res = NoRes
  /\ hung = FALSE
  /\ pool = sio_buffer_pool_create(1, "block_a")
  /\ held = {}
  /\ released = NoPtr
  /\ pres = NoPres
  /\ stream \in {OpenFd(type, SIO_STREAM_RDWR) : type \in IoTypes}
  /\ sres = [NoSres EXCEPT !.op = "open"]
  /\ io = [NoIo EXCEPT !.open = TRUE]
  /\ g_std = ZeroStd
  /\ g_std_streams_initialized = FALSE
  /\ thread = [t \in Threads |-> IdleThread]
  /\ mem = NoMem
  /\ rt = NoRt
  /\ win = NoWin

SpecIO == InitIO /\ [][NextIO]_vars

\* a process that has not touched the standard streams yet
InitStd ==
  /\ buf = ZeroBuffer
  /\ bflags = SIO_STREAM_READ
  /\ res = NoRes
  /\ hung = FALSE
  /\ pool = sio_buffer_pool_create(1, "block_a")
  /\ held = {}
  /\ released = NoPtr
  /\ pres = NoPres
  /\ stream = ZeroStream
  /\ sres = NoSres
  /\ io = NoIo
  /\ g_std = ZeroStd
  /\ g_std_streams_initialized = FALSE
  /\ thread = [t \in Threads |-> IdleThread]
  /\ mem = NoMem
  /\ rt = NoRt
  /\ win = NoWin

SpecStd == InitStd /\ [][NextStd]_vars

\* no buffer yet
InitMem ==
  /\ buf = ZeroBuffer
  /\ bflags = SIO_STREAM_READ
  /\ res = NoRes
  /\ hung = FALSE
  /\ pool = sio_buffer_pool_create(1, "block_a")
  /\ held = {}
  /\ released = NoPtr
  /\ pres = NoPres
  /\ stream = ZeroStream
  /\ sres = NoSres
  /\ io = NoIo
  /\ g_std = ZeroStd
  /\ g_std_streams_initialized = FALSE
  /\ thread = [t \in Threads |-> IdleThread]
  /\ mem = NoMem
  /\ rt = NoRt
  /\ win = NoWin

SpecMem == InitMem /\ [][NextMem]_vars

\* a stream that has just been opened
InitAny ==
  /\ \E o \in Opened : stream = o.s /\ buf = o.b
  /\ bflags = SIO_STREAM_READ
  /\ res = NoRes
  /\ hung = FALSE
  /\ pool = sio_buffer_pool_create(1, "block_a")
  /\ held = {}
  /\ released = NoPtr
  /\ pres = NoPres
  /\ sres = [NoSres EXCEPT !.op = "open"]
  /\ io = [NoIo EXCEPT !.open = TRUE]
  /\ g_std = ZeroStd
  /\ g_std_streams_initialized = FALSE
  /\ thread = [t \in Threads |-> IdleThread]
  /\ mem = NoMem
  /\ rt = NoRt
  /\ win = NoWin

SpecAny == InitAny /\ [][NextAny]_vars

\* a stream that has just been opened
InitOps ==
  /\ \E o \in Opened : stream = o.s /\ buf = o.b
  /\ bflags = SIO_STREAM_READ
  /\ res = NoRes
  /\ hung = FALSE
  /\ pool = sio_buffer_pool_create(1, "block_a")
  /\ held = {}
  /\ released = NoPtr
  /\ pres = NoPres
  /\ sres = [NoSres EXCEPT !.op = "open"]
  /\ io = [NoIo EXCEPT !.open = TRUE]
  /\ g_std = ZeroStd
  /\ g_std_streams_initialized = FALSE
  /\ thread = [t \in Threads |-> IdleThread]
  /\ mem = NoMem
  /\ rt = NoRt
  /\ win = NoWin

SpecOps == InitOps /\ [][NextOps]_vars

\* no socket stream has been opened
InitSock ==
  /\ stream = ZeroSock
  /\ buf = ZeroBuffer
  /\ bflags = SIO_STREAM_READ
  /\ res = NoRes
  /\ hung = FALSE
  /\ pool = sio_buffer_pool_create(1, "block_a")
  /\ held = {}
  /\ released = NoPtr
  /\ pres = NoPres
  /\ sres = SockResult("none", "SIO_SUCCESS", 0, FALSE, NoAddr)
  /\ io = [open |-> FALSE, closed_ok |-> FALSE, peer |-> NoAddr]
  /\ g_std = ZeroStd
  /\ g_std_streams_initialized = FALSE
  /\ thread = [t \in Threads |-> IdleThread]
  /\ mem = NoMem
  /\ rt = NoRt
  /\ win = NoWin

SpecSock == InitSock /\ [][NextSock]_vars

\* a buffer stream just opened, read-only or writable, over a buffer the
\* caller created
InitTrunc ==
  /\ \E opt \in OpenFlags, cap \in {1, SIO_BUFFER_ALIGNMENT + 1},
        gs \in {"SIO_BUFFER_GROWTH_FIXED", "SIO_BUFFER_GROWTH_OPTIMAL"} :
       /\ buf = sio_buffer_create_ex(cap, gs, SIO_BUFFER_ALIGNMENT, TRUE).b
       /\ stream = sio_stream_open_buffer(buf, TRUE, cap, opt, TRUE).s
       /\ mem = [NoMem EXCEPT !.bytes = Fresh(buf.capacity)]
  /\ bflags = SIO_STREAM_READ
  /\ res = NoRes
  /\ hung = FALSE
  /\ pool = sio_buffer_pool_create(1, "block_a")
  /\ held = {}
  /\ released = NoPtr
  /\ pres = NoPres
  /\ sres = [NoSres EXCEPT !.op = "open"]
  /\ io = NoIo
  /\ g_std = ZeroStd
  /\ g_std_streams_initialized = FALSE
  /\ thread = [t \in Threads |-> IdleThread]
  /\ rt = NoRt
  /\ win = NoWin

SpecTrunc == InitTrunc /\ [][NextTrunc]_vars

\* a raw memory stream just opened over the span
InitRaw ==
  /\ \E len \in SpanSizes, opt \in OpenFlags :
       /\ stream = sio_stream_open_memory(len, opt)
       /\ mem = [NoMem EXCEPT !.bytes = Span(len)]
  /\ buf = ZeroBuffer
  /\ bflags = SIO_STREAM_READ
  /\ res = NoRes
  /\ hung = FALSE
  /\ pool = sio_buffer_pool_create(1, "block_a")
  /\ held = {}
  /\ released = NoPtr
  /\ pres = NoPres
  /\ sres = [op |-> "open", err |-> "SIO_SUCCESS", size |-> 0, n |-> 0,
             from |-> 0, got |-> <<>>]
  /\ io = NoIo
  /\ g_std = ZeroStd
  /\ g_std_streams_initialized = FALSE
  /\ thread = [t \in Threads |-> IdleThread]
  /\ rt = NoRt
  /\ win = NoWin

SpecRaw == InitRaw /\ [][NextRaw]_vars

InitSig ==
  /\ buf = ZeroBuffer
  /\ bflags = SIO_STREAM_READ
  /\ res = NoRes
  /\ hung = FALSE
  /\ pool = sio_buffer_pool_create(1, "block_a")
  /\ held = {}
  /\ released = NoPtr
  /\ pres = NoPres
  /\ stream = ZeroStream
  /\ sres = NoSres
  /\ io = NoIo
  /\ g_std = ZeroStd
  /\ g_std_streams_initialized = FALSE
  /\ thread = [t \in Openers |-> IdleOpener]
  /\ mem = NoMem
  /\ rt = NoRt
  /\ win = NoWin

SpecSig == InitSig /\ [][NextSig]_vars

InitMap ==
  /\ buf = ZeroBuffer
  /\ bflags = SIO_STREAM_READ
  /\ res = NoRes
  /\ hung = FALSE
  /\ pool = sio_buffer_pool_create(1, "block_a")
  /\ held = {}
  /\ released = NoPtr
  /\ pres = NoPres
  /\ stream = ZeroStream
  /\ sres = MapResult("none", "SIO_SUCCESS", "0", TRUE, FALSE)
  /\ io = NoIo
  /\ g_std = ZeroStd
  /\ g_std_streams_initialized = FALSE
  /\ thread = [t \in Threads |-> IdleThread]
  /\ mem = NoMem
  /\ rt = NoRt
  /\ win = NoWin

SpecMap == InitMap /\ [][NextMap]_vars

InitEof ==
  /\ buf = ZeroBuffer
  /\ bflags = SIO_STREAM_READ
  /\ res = NoRes
  /\ hung = FALSE
  /\ pool = sio_buffer_pool_create(1, "block_a")
  /\ held = {}
  /\ released = NoPtr
  /\ pres = NoPres
  /\ \E opt \in {SIO_STREAM_READ, SIO_STREAM_RDWR} :
       stream = sio_stream_open_file_from_handle(NativeFd, opt)
  /\ sres = EofResult("open", "SIO_SUCCESS", 0, 0, 0)
  /\ \E len \in FileLens : io = [open |-> TRUE, size |-> len, offset |-> 0]
  /\ g_std = ZeroStd
  /\ g_std_streams_initialized = FALSE
  /\ thread = [t \in Threads |-> IdleThread]
  /\ mem = NoMem
  /\ rt = NoRt
  /\ win = NoWin

SpecEof == InitEof /\ [][NextEof]_vars

InitTimer ==
  /\ buf = ZeroBuffer
  /\ bflags = SIO_STREAM_READ
  /\ res = NoRes
  /\ hung = FALSE
  /\ pool = sio_buffer_pool_create(1, "block_a")
  /\ held = {}
  /\ released = NoPtr
  /\ pres = NoPres
  /\ \E interval_ms \in Intervals, is_oneshot \in BOOLEAN, opt \in OpenFlags :
       /\ stream = sio_stream_open_timer(interval_ms, is_oneshot, opt).s
       /\ io = TimerIo(sio_stream_open_timer(interval_ms, is_oneshot, opt).k,
                       0, 0, interval_ms, FALSE)
  /\ sres = TimerResult("open", "SIO_SUCCESS", 0, 0, 0, 0)
  /\ g_std = ZeroStd
  /\ g_std_streams_initialized = FALSE
  /\ thread = [t \in Threads |-> IdleThread]
  /\ mem = NoMem
  /\ rt = NoRt
  /\ win = NoWin

SpecTimer == InitTimer /\ [][NextTimer]_vars

InitMask ==
  /\ buf = ZeroBuffer
  /\ bflags = SIO_STREAM_READ
  /\ res = NoRes
  /\ hung = FALSE
  /\ pool = sio_buffer_pool_create(1, "block_a")
  /\ held = {}
  /\ released = NoPtr
  /\ pres = NoPres
  /\ stream = [id \in SigStreams |-> ZeroSignal]
  /\ sres = [op |-> "none", id |-> "a", err |-> "SIO_SUCCESS"]
  /\ io = [blocked |-> {}, fds |-> {}]
  /\ g_std = ZeroStd
  /\ g_std_streams_initialized = FALSE
  /\ thread = [t \in Threads |-> IdleThread]
  /\ mem = NoMem
  /\ rt = NoRt
  /\ win = NoWin

SpecMask == InitMask /\ [][NextMask]_vars

\* a stream of any kind that has just been opened
InitAfter ==
  /\ \E o \in Opened : stream = o.s /\ buf = o.b
  /\ bflags = SIO_STREAM_READ
  /\ res = NoRes
  /\ hung = FALSE
  /\ pool = sio_buffer_pool_create(1, "block_a")
  /\ held = {}
  /\ released = NoPtr
  /\ pres = NoPres
  /\ sres = [NoSres EXCEPT !.op = "open"]
  /\ io = [NoIo EXCEPT !.open = TRUE]
  /\ g_std = ZeroStd
  /\ g_std_streams_initialized = FALSE
  /\ thread = [t \in Threads |-> IdleThread]
  /\ mem = NoMem
  /\ rt = NoRt
  /\ win = NoWin

SpecAfter == InitAfter /\ [][NextAfter]_vars

\* a buffer stream just opened, for reading, writing or both, over a buffer
\* of the caller's that owns its block and holds data
InitRo ==
  /\ \E opt \in OpenFlags,
        gs \in {"SIO_BUFFER_GROWTH_FIXED", "SIO_BUFFER_GROWTH_OPTIMAL"} :
       /\ buf = Filled(sio_buffer_create_ex(1, gs, SIO_BUFFER_ALIGNMENT, TRUE).b)
       /\ stream = sio_stream_open_buffer(buf, TRUE, 0, opt, TRUE).s
       /\ mem = [NoMem EXCEPT !.bytes = FilledBytes(buf.capacity)]
  /\ bflags = SIO_STREAM_READ
  /\ res = NoRes
  /\ hung = FALSE
  /\ pool = sio_buffer_pool_create(1, "block_a")
  /\ held = {}
  /\ released = NoPtr
  /\ pres = NoPres
  /\ sres = [NoSres EXCEPT !.op = "open"]
  /\ io = NoIo
  /\ g_std = ZeroStd
  /\ g_std_streams_initialized = FALSE
  /\ thread = [t \in Threads |-> IdleThread]
  /\ rt = NoRt
  /\ win = NoWin

SpecRo == InitRo /\ [][NextRo]_vars

\* a stream nobody has opened, in a process that holds its standard
\* descriptors and may hold one more
InitFail ==
  /\ buf = ZeroBuffer
  /\ bflags = SIO_STREAM_READ
  /\ res = NoRes
  /\ hung = FALSE
  /\ pool = sio_buffer_pool_create(1, "block_a")
  /\ held = {}
  /\ released = NoPtr
  /\ pres = NoPres
  /\ stream = ZeroSock
  /\ sres = SockResult("none", "SIO_SUCCESS", 0, FALSE, NoAddr)
  /\ \E busy \in SUBSET {BusyFd} : io = FailIo(StdFds \cup busy, -1)
  /\ g_std = ZeroStd
  /\ g_std_streams_initialized = FALSE
  /\ thread = [t \in Threads |-> IdleThread]
  /\ mem = NoMem
  /\ rt = NoRt
  /\ win = NoWin

SpecFail == InitFail /\ [][NextFail]_vars

====
